---- MODULE Spec2Model ----
(***************************************************************************)
(* Carpet production calculation engine (engine.py): unit conversion, pile *)
(* / weft / warp consumption, production time, creel plan, cost, the       *)
(* pile-height sweep and the orchestrator hesapla.                         *)
(*                                                                         *)
(* Numbers.  Python floats are modelled as exact rationals [n, d] kept in  *)
(* lowest terms with d > 0; long products are evaluated exactly on big     *)
(* naturals when they are rounded.  round(x, k) is Python's rule:          *)
(* nearest multiple of 10^-k, ties to the even one.  The binary            *)
(* representation error of floats is modelled in the creel plan, where a   *)
(* float is truncated to an integer; elsewhere it is not, and the inputs   *)
(* avoid exact decimal ties.                                               *)
(*                                                                         *)
(* A call either returns a value, Ok(v), or raises ValueError, Err(msg);   *)
(* msg is the text of the raise statement up to the interpolated value.    *)
(***************************************************************************)
EXTENDS Integers, Sequences, FiniteSets, TLC

VARIABLES pc, girdi, sonuc, i, sonuclar, baz, baz_toplam

vars == <<pc, girdi, sonuc, i, sonuclar, baz, baz_toplam>>

-----------------------------------------------------------------------------
(* Exact rational arithmetic standing for Python float arithmetic.         *)

Abs(x) == IF x < 0 THEN -x ELSE x

RECURSIVE GCD(_, _)
GCD(a, b) == IF b = 0 THEN a ELSE GCD(b, a % b)

Q(n, d) == LET g == GCD(Abs(n), d) IN [n |-> n \div g, d |-> d \div g]

FromInt(k) == [n |-> k, d |-> 1]

Pow10(k) == CASE k = 0 -> 1 [] k = 1 -> 10 [] k = 2 -> 100
              [] k = 3 -> 1000 [] k = 4 -> 10000

\* the decimal literal n * 10^-k
Dec(n, k) == Q(n, Pow10(k))

Zero == FromInt(0)
One == FromInt(1)

QNeg(a) == [n |-> -a.n, d |-> a.d]

QMul(a, b) ==
  LET g1 == GCD(Abs(a.n), b.d)
      g2 == GCD(Abs(b.n), a.d)
  IN [n |-> (a.n \div g1) * (b.n \div g2), d |-> (a.d \div g2) * (b.d \div g1)]

QInv(a) == IF a.n > 0 THEN [n |-> a.d, d |-> a.n] ELSE [n |-> -a.d, d |-> -a.n]

QDiv(a, b) == QMul(a, QInv(b))

QAdd(a, b) ==
  LET g == GCD(a.d, b.d)
  IN Q(a.n * (b.d \div g) + b.n * (a.d \div g), (a.d \div g) * b.d)

QSub(a, b) == QAdd(a, QNeg(b))

QLt(a, b) == a.n * b.d < b.n * a.d
QLe(a, b) == a.n * b.d <= b.n * a.d

QMax(a, b) == IF QLt(a, b) THEN b ELSE a

\* math.floor, math.ceil, and int() (truncation toward zero)
Floor(a) == a.n \div a.d
Ceil(a) == -((-a.n) \div a.d)
Trunc(a) == IF a.n >= 0 THEN a.n \div a.d ELSE -((-a.n) \div a.d)

-----------------------------------------------------------------------------
(* Long products.  A chain of float multiplications and divisions is kept  *)
(* as an unevaluated product [num, den] of integer factors and is only     *)
(* evaluated, exactly, when the code rounds it.  Big naturals are          *)
(* little-endian sequences of base-10000 limbs.                            *)

P(q) == [num |-> <<q.n>>, den |-> <<q.d>>]
PInt(k) == [num |-> <<k>>, den |-> <<1>>]
PMul(a, b) == [num |-> a.num \o b.num, den |-> a.den \o b.den]
PDiv(a, b) == [num |-> a.num \o b.den, den |-> a.den \o b.num]

RECURSIVE BigFromInt(_)
BigFromInt(x) == IF x = 0 THEN <<>> ELSE <<x % 10000>> \o BigFromInt(x \div 10000)

RECURSIVE BigToInt(_)
BigToInt(b) == IF b = <<>> THEN 0 ELSE Head(b) + 10000 * BigToInt(Tail(b))

RECURSIVE BigAddFrom(_, _, _, _)
BigAddFrom(a, b, j, carry) ==
  IF j > Len(a) /\ j > Len(b)
  THEN IF carry = 0 THEN <<>> ELSE <<carry>>
  ELSE LET t == (IF j <= Len(a) THEN a[j] ELSE 0)
                + (IF j <= Len(b) THEN b[j] ELSE 0) + carry
       IN <<t % 10000>> \o BigAddFrom(a, b, j + 1, t \div 10000)

BigAdd(a, b) == BigAddFrom(a, b, 1, 0)

\* b * s for one limb s < 10000
RECURSIVE BigMulLimbFrom(_, _, _, _)
BigMulLimbFrom(b, s, j, carry) ==
  IF j > Len(b)
  THEN IF carry = 0 THEN <<>> ELSE <<carry>>
  ELSE LET t == b[j] * s + carry
       IN <<t % 10000>> \o BigMulLimbFrom(b, s, j + 1, t \div 10000)

RECURSIVE BigMulFrom(_, _, _)
BigMulFrom(a, b, j) ==
  IF j > Len(b) THEN <<>>
  ELSE BigAdd(BigMulLimbFrom(a, b[j], 1, 0), <<0>> \o BigMulFrom(a, b, j + 1))

BigMul(a, b) == BigMulFrom(a, b, 1)

\* b divided by s, 0 < s < 200000: quotient limbs 1..j and the remainder
RECURSIVE BigDivSmallFrom(_, _, _, _)
BigDivSmallFrom(b, s, j, rem) ==
  IF j = 0 THEN [q |-> <<>>, r |-> rem]
  ELSE LET t == rem * 10000 + b[j]
           rest == BigDivSmallFrom(b, s, j - 1, t % s)
       IN [q |-> rest.q \o <<t \div s>>, r |-> rest.r]

RECURSIVE EnKucukBolen(_, _)
EnKucukBolen(x, k) == IF x % k = 0 THEN k ELSE EnKucukBolen(x, k + 1)

\* a positive divisor as a sequence of divisors below 200000
RECURSIVE Carpanlar(_)
Carpanlar(x) ==
  IF x < 200000 THEN <<x>>
  ELSE IF x % 10000 = 0 THEN <<10000>> \o Carpanlar(x \div 10000)
  ELSE IF x % 10 = 0 THEN <<10>> \o Carpanlar(x \div 10)
  ELSE LET k == EnKucukBolen(x, 2) IN <<k>> \o Carpanlar(x \div k)

RECURSIVE BigProduct(_, _)
BigProduct(fs, j) ==
  IF j > Len(fs) THEN <<1>>
  ELSE BigMul(BigProduct(fs, j + 1), BigFromInt(Abs(fs[j])))

\* floor(b / (ds[j] * ... * ds[Len(ds)])) and whether the division is exact
RECURSIVE BigDivAll(_, _, _, _)
BigDivAll(b, ds, j, exact) ==
  IF j > Len(ds) THEN [q |-> b, exact |-> exact]
  ELSE LET r == BigDivSmallFrom(b, ds[j], Len(b), 0)
       IN BigDivAll(r.q, ds, j + 1, exact /\ r.r = 0)

RECURSIVE Flatten(_, _)
Flatten(ds, j) ==
  IF j > Len(ds) THEN <<>> ELSE Carpanlar(Abs(ds[j])) \o Flatten(ds, j + 1)

Negatives(fs) == Cardinality({j \in DOMAIN fs : fs[j] < 0})

\* Python round(p, k) of the product p: nearest multiple of 10^-k, ties to even
RoundP(p, k) ==
  IF \E j \in DOMAIN p.num : p.num[j] = 0 THEN [n |-> 0, d |-> 1]
  ELSE
    LET sgn == IF (Negatives(p.num) + Negatives(p.den)) % 2 = 0 THEN 1 ELSE -1
        twoN == BigProduct(<<2, Pow10(k)>> \o p.num, 1)
        h == BigDivAll(twoN, Flatten(p.den, 1), 1, TRUE)
        r == BigToInt(h.q)
        f == r \div 2
        m == IF r % 2 = 0 THEN f
             ELSE IF ~h.exact THEN f + 1
             ELSE IF f % 2 = 0 THEN f ELSE f + 1
    IN Q(sgn * m, Pow10(k))

Round(a, k) == RoundP(P(a), k)

-----------------------------------------------------------------------------
(* Binary floating point, where the code truncates a float product to an   *)
(* integer (int(reed * genislik_m)): there the representation error of the *)
(* double decides the result, so the IEEE-754 double product is computed:  *)
(* the decimal literal is rounded to 53 bits, the product is rounded to 53 *)
(* bits, ties to even both times.                                          *)

\* b without its leading zero limbs
RECURSIVE BigStrip(_)
BigStrip(b) ==
  IF b = <<>> THEN b
  ELSE IF b[Len(b)] = 0 THEN BigStrip(SubSeq(b, 1, Len(b) - 1)) ELSE b

RECURSIVE BigLessFrom(_, _, _)
BigLessFrom(x, y, j) ==
  IF j = 0 THEN FALSE
  ELSE IF x[j] # y[j] THEN x[j] < y[j] ELSE BigLessFrom(x, y, j - 1)

BigLess(a, b) ==
  LET x == BigStrip(a)
      y == BigStrip(b)
  IN IF Len(x) # Len(y) THEN Len(x) < Len(y) ELSE BigLessFrom(x, y, Len(x))

\* b * 2^e
RECURSIVE BigMulPow2(_, _)
BigMulPow2(b, e) ==
  IF e = 0 THEN b
  ELSE IF e >= 13 THEN BigMulPow2(BigMulLimbFrom(b, 8192, 1, 0), e - 13)
  ELSE BigMulLimbFrom(b, 2^e, 1, 0)

\* 2^e as a sequence of divisors below 200000
RECURSIVE Pow2Carpanlar(_)
Pow2Carpanlar(e) ==
  IF e = 0 THEN <<>>
  ELSE IF e >= 13 THEN <<8192>> \o Pow2Carpanlar(e - 13)
  ELSE <<2^e>>

\* b / (ds[1] * ... * ds[Len(ds)]) rounded to the nearest natural, ties to even
\* f, or f + 1: q = 2f + 1 says the quotient is at or past the half, exact
\* that it is the half itself
BigYarimdanYuvarla(q, f, exact) ==
  IF q = <<>> \/ q[1] % 2 = 0 THEN f
  ELSE IF ~exact THEN BigAdd(f, <<1>>)
  ELSE IF f # <<>> /\ f[1] % 2 = 1 THEN BigAdd(f, <<1>>) ELSE f

\* q \div 2 rounded by the dropped bit of q, for q = floor(2b / ds)
BigYarim(q, exact) ==
  BigYarimdanYuvarla(
    q, IF q = <<>> THEN <<>> ELSE BigStrip(BigDivSmallFrom(q, 2, Len(q), 0).q),
    exact)

BigRoundBolum(h) == BigYarim(BigStrip(h.q), h.exact)

BigRoundDiv(b, ds) ==
  BigRoundBolum(BigDivAll(BigMulLimbFrom(b, 2, 1, 0), ds, 1, TRUE))

\* floor(log2(n / d)) for n, d > 0
RECURSIVE Log2Floor(_, _, _)
Log2Floor(n, d, k) ==
  IF n >= d THEN (IF n < 2 * d THEN k ELSE Log2Floor(n, 2 * d, k + 1))
  ELSE Log2Floor(2 * n, d, k - 1)

\* the double nearest to the rational q > 0: mantissa m (53 bits) and e with
\* value m / 2^e
ToDouble(q) ==
  LET e == 52 - Log2Floor(q.n, q.d, 0)
  IN [m |-> BigRoundDiv(BigMulPow2(BigFromInt(q.n), e), Carpanlar(q.d)), e |-> e]

\* the least s with b / 2^s < 2^53
RECURSIVE FazlaBit(_, _)
FazlaBit(b, s) ==
  IF BigLess(BigDivAll(b, Pow2Carpanlar(s), 1, TRUE).q, BigMulPow2(<<1>>, 53))
  THEN s ELSE FazlaBit(b, s + 1)

\* int(k * x) for an int k and the float literal x: the double product,
\* truncated toward zero
IntFloatCarpim(k, x) ==
  IF k = 0 \/ x.n = 0 THEN 0
  ELSE
    LET w == ToDouble([n |-> Abs(x.n), d |-> x.d])
        carpim == BigMul(w.m, BigFromInt(Abs(k)))
        s == FazlaBit(carpim, 0)
        m2 == BigRoundDiv(carpim, Pow2Carpanlar(s))
        tam == BigToInt(BigDivAll(m2, Pow2Carpanlar(w.e - s), 1, TRUE).q)
    IN IF (k > 0) = (x.n > 0) THEN tam ELSE -tam

\* round(a / b, k) for ints a, b with b > 0: the quotient is the double nearest
\* to a / b, and round() rounds the exact value of that double, ties to even
RoundDouble(a, b, k) ==
  IF a = 0 THEN Zero
  ELSE
    LET w == ToDouble(Q(Abs(a), b))
        m == BigToInt(BigRoundDiv(BigMul(w.m, BigFromInt(Pow10(k))),
                                  Pow2Carpanlar(w.e)))
    IN Q(IF a > 0 THEN m ELSE -m, Pow10(k))

-----------------------------------------------------------------------------
(* Double arithmetic, where a float that is itself the result of float     *)
(* divisions is used again (the round trip of a unit conversion).  A       *)
(* double >= 0 is [m, e] with the value m / 2^e, m a big natural of at     *)
(* most 53 bits (<<>> for 0.0); every operation is the exact one followed  *)
(* by rounding to 53 bits, ties to even, as IEEE-754 prescribes.           *)

\* a - b for big naturals a >= b
RECURSIVE BigSubFrom(_, _, _, _)
BigSubFrom(a, b, j, borrow) ==
  IF j > Len(a) THEN <<>>
  ELSE LET t == a[j] - (IF j <= Len(b) THEN b[j] ELSE 0) - borrow
       IN IF t < 0 THEN <<t + 10000>> \o BigSubFrom(a, b, j + 1, 1)
          ELSE <<t>> \o BigSubFrom(a, b, j + 1, 0)

BigSub(a, b) == BigStrip(BigSubFrom(BigStrip(a), BigStrip(b), 1, 0))

\* floor(rem / b) and the remainder, for rem < b * 2^(j + 1): 4 bits of the
\* quotient per step, bits j .. j - 3 first
RECURSIVE BigDivModFrom(_, _, _)
BigDivModFrom(rem, b, j) ==
  IF j < 0 THEN [q |-> <<>>, r |-> rem]
  ELSE LET u == BigMulPow2(b, j - 3)
           c == CHOOSE x \in 0..15 :
                  /\ ~BigLess(rem, BigMulLimbFrom(u, x, 1, 0))
                  /\ BigLess(rem, BigMulLimbFrom(u, x + 1, 1, 0))
           kalan == BigSub(rem, BigMulLimbFrom(u, c, 1, 0))
           h == BigDivModFrom(kalan, b, j - 4)
       IN IF BigLess(kalan, u)
          THEN [q |-> BigAdd(h.q, BigMulPow2(BigFromInt(c), j - 3)), r |-> h.r]
          ELSE [q |-> <<>>, r |-> <<>>]

\* the number of bits of M above 53: the least s with M / 2^s < 2^53
FazlaBitSayisi(M) ==
  CHOOSE s \in 0..64 :
    /\ BigLess(BigDivAll(M, Pow2Carpanlar(s), 1, TRUE).q, BigMulPow2(<<1>>, 53))
    /\ s = 0 \/ ~BigLess(BigDivAll(M, Pow2Carpanlar(s - 1), 1, TRUE).q,
                         BigMulPow2(<<1>>, 53))

\* the double nearest to M / 2^E for a big natural M > 0
DNorm(M, E) ==
  LET s == FazlaBitSayisi(M)
  IN [m |-> BigRoundDiv(M, Pow2Carpanlar(s)), e |-> E - s]

\* float(k) for an int k > 0
DInt(k) == [m |-> BigFromInt(k), e |-> 0]

\* a * b
DMul(a, b) ==
  IF a.m = <<>> \/ b.m = <<>> THEN [m |-> <<>>, e |-> 0]
  ELSE DNorm(BigMul(a.m, b.m), a.e + b.e)

\* a + b
DAdd(a, b) ==
  LET e == IF a.e >= b.e THEN a.e ELSE b.e
  IN IF a.m = <<>> THEN b ELSE IF b.m = <<>> THEN a
     ELSE DNorm(BigAdd(BigMulPow2(a.m, e - a.e), BigMulPow2(b.m, e - b.e)), e)

\* the least t with a * 2^t >= b, for a > 0 and b < 2^110
Kaydir(a, b) ==
  CHOOSE t \in 0..110 :
    /\ ~BigLess(BigMulPow2(a, t), b)
    /\ t = 0 \/ BigLess(BigMulPow2(a, t - 1), b)

\* a / b for b # 0: the quotient is developed to 56 bits and a sticky
\* remainder, and the 3 low bits are rounded away
\* m0 rounded by the 3 bits dusuk below it and the remainder
DDivYuvarla(dusuk, m0, kalansiz, e) ==
  [m |-> IF \/ dusuk > 4
            \/ dusuk = 4 /\ ~kalansiz
            \/ dusuk = 4 /\ kalansiz /\ m0[1] % 2 = 1
         THEN BigAdd(m0, <<1>>) ELSE m0,
   e |-> e]

DDivBolum(h, e) ==
  DDivYuvarla(h.q[1] % 8, BigStrip(BigDivSmallFrom(h.q, 8, Len(h.q), 0).q),
              h.r = <<>>, e)

DDivKaydirilmis(a, b, t) ==
  DDivBolum(BigDivModFrom(BigMulPow2(a.m, t), b.m, 55), t - 3 + a.e - b.e)

DDiv(a, b) ==
  IF a.m = <<>> \/ b.m = <<>> THEN [m |-> <<>>, e |-> 0]
  ELSE DDivKaydirilmis(a, b, Kaydir(a.m, BigMulPow2(b.m, 55)))

\* round(x, k) of the double x: the exact value of x is rounded, ties to even
DRound(x, k) ==
  Q(BigToInt(BigRoundDiv(BigMul(x.m, BigFromInt(Pow10(k))), Pow2Carpanlar(x.e))),
    Pow10(k))

Ok(v) == [ok |-> TRUE, val |-> v]
Err(msg) == [ok |-> FALSE, err |-> msg]

-----------------------------------------------------------------------------
(* class CONSTANTS                                                         *)

NE_TO_NM_FACTOR == Dec(16535, 4)
DTEX_NM_BASE == FromInt(10000)
HAV_FORMULA_DIVISOR == FromInt(10000000)
VARDIYA_SAATI == FromInt(8)

-----------------------------------------------------------------------------
(* Unit conversion                                                         *)

\* the conversion with the base of tex (1000) instead of dtex (10000)
dtex_to_nm_tex(dtex) ==
  IF QLe(dtex, Zero) THEN Err("dtex pozitif olmali")
  ELSE Ok(QDiv(FromInt(1000), dtex))

dtex_to_nm(dtex) ==
  IF QLe(dtex, Zero) THEN Err("dtex pozitif olmali")
  ELSE Ok(QDiv(DTEX_NM_BASE, dtex))

nm_to_dtex(nm) ==
  IF QLe(nm, Zero) THEN Err("Nm pozitif olmali")
  ELSE Ok(QDiv(DTEX_NM_BASE, nm))

ne_to_nm(ne) ==
  IF QLe(ne, Zero) THEN Err("Ne pozitif olmali")
  ELSE Ok(QMul(ne, NE_TO_NM_FACTOR))

\* the conversion without its guard
nm_to_ne_dogrulamasiz(nm) == Ok(QDiv(nm, NE_TO_NM_FACTOR))

nm_to_ne(nm) ==
  IF QLe(nm, Zero) THEN Err("Nm pozitif olmali")
  ELSE Ok(QDiv(nm, NE_TO_NM_FACTOR))

\* returns the pair <<dtex, nm>>
resolve_dtex_nm(birimi, deger) ==
  IF birimi = "dtex" THEN
    LET r == dtex_to_nm(deger) IN IF r.ok THEN Ok(<<deger, r.val>>) ELSE r
  ELSE IF birimi = "Nm" THEN
    LET r == nm_to_dtex(deger) IN IF r.ok THEN Ok(<<r.val, deger>>) ELSE r
  ELSE Err("Bilinmeyen iplik birimi")

-----------------------------------------------------------------------------
(* Pile yarn consumption, kg/m2                                            *)

\* the seven guards, in source order; "" when none raises
hav_dogrula_yanlis(dtex, reed, pick, hav_mm, baglanti_mm, fire_orani, high_bulk_faktoru) ==
  IF QLe(dtex, Zero) THEN "dtex pozitif olmali"
  ELSE IF reed <= 0 THEN "Reed pozitif olmali"
  ELSE IF pick <= 0 THEN "Pick pozitif olmali"
  ELSE IF QLe(hav_mm, Zero) THEN "Hav yuksekligi pozitif olmali"
  ELSE IF QLt(baglanti_mm, Zero) THEN "Baglanti payi negatif olamaz"
  ELSE IF QLt(fire_orani, Zero) THEN "Fire orani negatif olamaz"
  ELSE IF QLe(high_bulk_faktoru, Zero) THEN "High-Bulk >= 1.0 olmali"
  ELSE ""

hav_dogrula(dtex, reed, pick, hav_mm, baglanti_mm, fire_orani, high_bulk_faktoru) ==
  IF QLe(dtex, Zero) THEN "dtex pozitif olmali"
  ELSE IF reed <= 0 THEN "Reed pozitif olmali"
  ELSE IF pick <= 0 THEN "Pick pozitif olmali"
  ELSE IF QLe(hav_mm, Zero) THEN "Hav yuksekligi pozitif olmali"
  ELSE IF QLt(baglanti_mm, Zero) THEN "Baglanti payi negatif olamaz"
  ELSE IF QLt(fire_orani, Zero) THEN "Fire orani negatif olamaz"
  ELSE IF QLt(high_bulk_faktoru, One) THEN "High-Bulk >= 1.0 olmali"
  ELSE ""

\* ilme_m = (2.0 * hav_mm + baglanti_mm) / 1000.0
ilme_m(hav_mm, baglanti_mm) ==
  QDiv(QAdd(QMul(FromInt(2), hav_mm), baglanti_mm), FromInt(1000))

\* the v1.0 formula, with the x10 factors on reed and pick
hav_tuketim_v10(dtex, reed, pick, hav_mm, baglanti_mm, fire_orani, high_bulk_faktoru) ==
  PDiv(PMul(PMul(PMul(PMul(PMul(P(dtex), PInt(reed * 10)), PInt(pick * 10)),
                      P(ilme_m(hav_mm, baglanti_mm))),
                 P(QAdd(One, fire_orani))),
            P(high_bulk_faktoru)),
       P(HAV_FORMULA_DIVISOR))

\* waste subtracted instead of added
hav_tuketim_eksi_fire(dtex, reed, pick, hav_mm, baglanti_mm, fire_orani, high_bulk_faktoru) ==
  PDiv(PMul(PMul(PMul(PMul(PMul(P(dtex), PInt(reed)), PInt(pick)),
                      P(ilme_m(hav_mm, baglanti_mm))),
                 P(QSub(One, fire_orani))),
            P(high_bulk_faktoru)),
       P(HAV_FORMULA_DIVISOR))

\* tuketim, before rounding, evaluated left to right as the source does
hav_tuketim(dtex, reed, pick, hav_mm, baglanti_mm, fire_orani, high_bulk_faktoru) ==
  PDiv(PMul(PMul(PMul(PMul(PMul(P(dtex), PInt(reed)), PInt(pick)),
                      P(ilme_m(hav_mm, baglanti_mm))),
                 P(QAdd(One, fire_orani))),
            P(high_bulk_faktoru)),
       P(HAV_FORMULA_DIVISOR))

hav_iplik_tuketimi_hesapla(dtex, reed, pick, hav_mm, baglanti_mm, fire_orani, high_bulk_faktoru) ==
  LET hata == hav_dogrula(dtex, reed, pick, hav_mm, baglanti_mm, fire_orani, high_bulk_faktoru)
  IN IF hata # "" THEN Err(hata)
     ELSE Ok(RoundP(hav_tuketim(dtex, reed, pick, hav_mm, baglanti_mm,
                               fire_orani, high_bulk_faktoru), 4))

-----------------------------------------------------------------------------
(* Weft and warp yarn consumption, kg                                      *)

\* the guard of the width alone
olcu_gecersiz_metrajsiz(genislik_m, metraj) == QLe(genislik_m, Zero)

\* genislik_m <= 0 or metraj <= 0
olcu_gecersiz(genislik_m, metraj) == QLe(genislik_m, Zero) \/ QLe(metraj, Zero)

\* the total length without the width
toplam_m_genisliksiz(yogunluk, metraj, genislik_m) ==
  PMul(PInt(yogunluk), P(metraj))

\* toplam_m = pick * metraj * genislik_m, resp. reed * genislik_m * metraj
toplam_m_hesapla(yogunluk, metraj, genislik_m) ==
  PMul(PMul(PInt(yogunluk), P(metraj)), P(genislik_m))

atki_iplik_hesapla(pick, genislik_m, metraj, atki_nm, fire_orani) ==
  IF QLe(atki_nm, Zero) THEN Err("Atki Nm pozitif olmali")
  ELSE IF olcu_gecersiz(genislik_m, metraj)
  THEN Err("Genislik ve metraj pozitif olmali.")
  ELSE LET toplam_m == toplam_m_hesapla(pick, metraj, genislik_m)
       IN Ok(RoundP(PMul(PDiv(toplam_m, PMul(P(atki_nm), PInt(1000))),
                         P(QAdd(One, fire_orani))), 2))

cozgu_iplik_hesapla(reed, genislik_m, metraj, cozgu_nm, fire_orani) ==
  IF QLe(cozgu_nm, Zero) THEN Err("Cozgu Nm pozitif olmali")
  ELSE IF olcu_gecersiz(genislik_m, metraj)
  THEN Err("Genislik ve metraj pozitif olmali.")
  ELSE LET toplam_m == toplam_m_hesapla(reed, metraj, genislik_m)
       IN Ok(RoundP(PMul(PDiv(toplam_m, PMul(P(cozgu_nm), PInt(1000))),
                         P(QAdd(One, fire_orani))), 2))

-----------------------------------------------------------------------------
(* Production time                                                         *)

\* the efficiency interval without its upper end point
verimlilik_gecerli_yuz_haric(verimlilik_yuzde) ==
  QLt(Zero, verimlilik_yuzde) /\ QLt(verimlilik_yuzde, FromInt(100))

\* 0 < verimlilik_yuzde <= 100
verimlilik_gecerli(verimlilik_yuzde) ==
  QLt(Zero, verimlilik_yuzde) /\ QLe(verimlilik_yuzde, FromInt(100))

\* the efficiency guard without its upper limit
sure_dogrula_ust_sinirsiz(metraj, rpm, verimlilik_yuzde) ==
  IF rpm <= 0 THEN "RPM pozitif olmali"
  ELSE IF ~QLt(Zero, verimlilik_yuzde) THEN "Verimlilik 0-100"
  ELSE IF QLe(metraj, Zero) THEN "Metraj pozitif olmali"
  ELSE ""

\* the three guards, in source order; "" when none raises
sure_dogrula(metraj, rpm, verimlilik_yuzde) ==
  IF rpm <= 0 THEN "RPM pozitif olmali"
  ELSE IF ~verimlilik_gecerli(verimlilik_yuzde) THEN "Verimlilik 0-100"
  ELSE IF QLe(metraj, Zero) THEN "Metraj pozitif olmali"
  ELSE ""

\* the hours taken as minutes / 24
saat_hesapla_gunluk(dakika) == PDiv(dakika, PInt(24))

\* saat = dakika / 60.0
saat_hesapla(dakika) == PDiv(dakika, PInt(60))

\* the machine speed taken as the effective rate, whatever the efficiency
efektif_rpm_verimsiz(rpm, verimlilik_yuzde) == FromInt(rpm)

\* efektif_rpm = rpm * (verimlilik_yuzde / 100.0)
efektif_rpm_hesapla(rpm, verimlilik_yuzde) ==
  QMul(FromInt(rpm), QDiv(verimlilik_yuzde, FromInt(100)))

uretim_suresi_hesapla(metraj, atki_sikligi, rpm, verimlilik_yuzde) ==
  LET hata == sure_dogrula(metraj, rpm, verimlilik_yuzde)
  IN IF hata # "" THEN Err(hata)
     ELSE
       LET efektif_rpm == efektif_rpm_hesapla(rpm, verimlilik_yuzde)
           dakika == PDiv(PMul(P(metraj), PInt(atki_sikligi)), P(efektif_rpm))
           saat == saat_hesapla(dakika)
           gun_24 == PDiv(saat, PInt(24))
       IN Ok([dakika |-> RoundP(dakika, 1),
              saat |-> RoundP(saat, 2),
              gun_24h |-> RoundP(gun_24, 2),
              is_gunu_8h |-> RoundP(PDiv(saat, P(VARDIYA_SAATI)), 1),
              vardiya_sayisi |-> RoundP(PDiv(saat, P(VARDIYA_SAATI)), 1),
              gun_3vardiya |-> RoundP(gun_24, 2)])

-----------------------------------------------------------------------------
(* Creel plan                                                              *)

\* the guards without the check of the capacity
creel_dogrula_kapasitesiz(genislik_m, renk_sayisi, creel_kapasitesi) ==
  IF renk_sayisi <= 0 THEN "Renk sayisi pozitif olmali"
  ELSE IF QLe(genislik_m, Zero) THEN "Genislik pozitif olmali"
  ELSE ""

\* the three guards, in source order; "" when none raises
creel_dogrula(genislik_m, renk_sayisi, creel_kapasitesi) ==
  IF renk_sayisi <= 0 THEN "Renk sayisi pozitif olmali"
  ELSE IF creel_kapasitesi <= 0 THEN "Creel kapasitesi pozitif olmali"
  ELSE IF QLe(genislik_m, Zero) THEN "Genislik pozitif olmali"
  ELSE ""

\* toplam_dis = int(reed * genislik_m)
toplam_dis_hesapla(reed, genislik_m) == IntFloatCarpim(reed, genislik_m)

\* renk_basi_bobin = math.ceil(toplam_dis / renk_sayisi)
renk_basi_bobin_hesapla(toplam_dis, renk_sayisi) ==
  IF renk_sayisi > 0 THEN Ceil(Q(toplam_dis, renk_sayisi))
  ELSE Ceil(Q(-toplam_dis, -renk_sayisi))

\* the bobbins of one carpet face only
toplam_bobin_tek(renk_basi_bobin, renk_sayisi) == renk_basi_bobin * renk_sayisi

\* toplam_bobin = renk_basi_bobin * renk_sayisi * 2
toplam_bobin_hesapla(renk_basi_bobin, renk_sayisi) == renk_basi_bobin * renk_sayisi * 2

\* a creel filled exactly to its capacity counted as exceeded
kapasite_asimi_esit(toplam_bobin, creel_kapasitesi) == toplam_bobin >= creel_kapasitesi

\* kapasite_asimi = toplam_bobin > creel_kapasitesi
kapasite_asimi_hesapla(toplam_bobin, creel_kapasitesi) == toplam_bobin > creel_kapasitesi

\* the ratio reported to 1 decimal
kullanim_orani_kaba(toplam_bobin, creel_kapasitesi) ==
  IF creel_kapasitesi > 0
  THEN RoundDouble(toplam_bobin, creel_kapasitesi, 1)
  ELSE RoundDouble(-toplam_bobin, -creel_kapasitesi, 1)

\* kullanim = toplam_bobin / creel_kapasitesi; round(kullanim, 4)
kullanim_orani_hesapla(toplam_bobin, creel_kapasitesi) ==
  IF creel_kapasitesi > 0
  THEN RoundDouble(toplam_bobin, creel_kapasitesi, 4)
  ELSE RoundDouble(-toplam_bobin, -creel_kapasitesi, 4)

\* a division by zero raises ZeroDivisionError, not ValueError
creel_plani_hesapla(reed, genislik_m, renk_sayisi, creel_kapasitesi) ==
  LET hata == creel_dogrula(genislik_m, renk_sayisi, creel_kapasitesi)
  IN IF hata # "" THEN Err(hata)
     ELSE IF renk_sayisi = 0 \/ creel_kapasitesi = 0 THEN Err("ZeroDivisionError")
     ELSE
       LET toplam_dis == toplam_dis_hesapla(reed, genislik_m)
           renk_basi_bobin == renk_basi_bobin_hesapla(toplam_dis, renk_sayisi)
           toplam_bobin == toplam_bobin_hesapla(renk_basi_bobin, renk_sayisi)
       IN Ok([toplam_dis |-> toplam_dis,
              renk_basi_dis |->
                IF renk_sayisi > 0 THEN RoundDouble(toplam_dis, renk_sayisi, 1)
                ELSE RoundDouble(-toplam_dis, -renk_sayisi, 1),
              renk_basi_bobin |-> renk_basi_bobin,
              toplam_bobin |-> toplam_bobin,
              kapasite_asimi |-> kapasite_asimi_hesapla(toplam_bobin, creel_kapasitesi),
              kullanim_orani |->
                kullanim_orani_hesapla(toplam_bobin, creel_kapasitesi)])

-----------------------------------------------------------------------------
(* Cost                                                                    *)

\* the guard that lets an area of 0 through
maliyet_dogrula_negatif(alan_m2) ==
  IF QLt(alan_m2, Zero) THEN "Alan m2 pozitif olmali" ELSE ""

\* the guard; "" when it does not raise
maliyet_dogrula(alan_m2) ==
  IF QLe(alan_m2, Zero) THEN "Alan m2 pozitif olmali" ELSE ""

\* the unit price used as given
fiyat_kirpmasiz(fiyat) == fiyat

\* fiyat = max(0.0, fiyat)
fiyat_kirp(fiyat) == QMax(Zero, fiyat)

\* the total without the warp cost
maliyet_toplam_cozgusuz(hav_m, atki_m, cozgu_m) == QAdd(hav_m, atki_m)

\* toplam = hav_m + atki_m + cozgu_m
maliyet_toplam(hav_m, atki_m, cozgu_m) == QAdd(QAdd(hav_m, atki_m), cozgu_m)

\* a division by zero raises ZeroDivisionError, not ValueError
maliyet_hesapla(hav_kg, atki_kg, cozgu_kg, hav_fiyat, atki_fiyat, cozgu_fiyat, alan_m2) ==
  LET hata == maliyet_dogrula(alan_m2)
  IN IF hata # "" THEN Err(hata)
     ELSE IF alan_m2.n = 0 THEN Err("ZeroDivisionError")
     ELSE
       LET hav_m == QMul(hav_kg, fiyat_kirp(hav_fiyat))
           atki_m == QMul(atki_kg, fiyat_kirp(atki_fiyat))
           cozgu_m == QMul(cozgu_kg, fiyat_kirp(cozgu_fiyat))
           toplam == maliyet_toplam(hav_m, atki_m, cozgu_m)
       IN Ok([hav_maliyet |-> Round(hav_m, 2),
              atki_maliyet |-> Round(atki_m, 2),
              cozgu_maliyet |-> Round(cozgu_m, 2),
              toplam |-> Round(toplam, 2),
              maliyet_m2 |-> RoundP(PDiv(P(toplam), P(alan_m2)), 2)])

-----------------------------------------------------------------------------
(* Orchestrator                                                            *)

\* the full waste fraction handed to the weft and warp calculators
alt_fire_tam(fire_orani) == fire_orani

\* alt_fire = g.fire_orani * 0.5
alt_fire(fire_orani) == QMul(fire_orani, Dec(5, 1))

\* the combined total without the pile yarn
toplam_iplik_havsiz(toplam_hav, toplam_atki, toplam_cozgu) ==
  Round(QAdd(toplam_atki, toplam_cozgu), 2)

\* toplam_iplik = round(toplam_hav + toplam_atki + toplam_cozgu, 2)
toplam_iplik_hesapla(toplam_hav, toplam_atki, toplam_cozgu) ==
  Round(QAdd(QAdd(toplam_hav, toplam_atki), toplam_cozgu), 2)

\* a failure of the creel planner swallowed: the record is returned without
\* its creel and maliyet fields
hesapla_kur_yutan(alanlar, sure, creel, maliyet) ==
  IF ~sure.ok THEN sure
  ELSE IF ~creel.ok THEN Ok(alanlar @@ [sure |-> sure.val])
  ELSE IF ~maliyet.ok THEN maliyet
  ELSE Ok(alanlar @@ [sure |-> sure.val, creel |-> creel.val, maliyet |-> maliyet.val])

\* the HesaplamaSonuclari(...) call: its keyword arguments are evaluated in
\* order, so the first of sure, creel, maliyet to raise ends the call
hesapla_kur(alanlar, sure, creel, maliyet) ==
  IF ~sure.ok THEN sure
  ELSE IF ~creel.ok THEN creel
  ELSE IF ~maliyet.ok THEN maliyet
  ELSE Ok(alanlar @@ [sure |-> sure.val, creel |-> creel.val, maliyet |-> maliyet.val])

hesapla(g) ==
  LET r1 == resolve_dtex_nm(g.iplik_birimi, g.iplik_degeri) IN
  IF ~r1.ok THEN r1 ELSE
  LET dtex == r1.val[1]
      nm == r1.val[2]
      r2 == ne_to_nm(g.atki_iplik_ne)
  IN
  IF ~r2.ok THEN r2 ELSE
  LET atki_nm == r2.val
      alan_m2 == QMul(g.hali_genisligi, g.toplam_metraj)
      alt == alt_fire(g.fire_orani)
      r3 == hav_iplik_tuketimi_hesapla(dtex, g.tarak_no, g.atki_sikligi,
                                       g.hav_yuksekligi, g.baglanti_payi,
                                       g.fire_orani, g.high_bulk_faktoru)
  IN
  IF ~r3.ok THEN r3 ELSE
  LET hav_kg_m2 == r3.val
      toplam_hav == RoundP(PMul(P(hav_kg_m2), P(alan_m2)), 2)
      r4 == atki_iplik_hesapla(g.atki_sikligi, g.hali_genisligi, g.toplam_metraj,
                               atki_nm, alt)
  IN
  IF ~r4.ok THEN r4 ELSE
  LET toplam_atki == r4.val
      r5 == cozgu_iplik_hesapla(g.tarak_no, g.hali_genisligi, g.toplam_metraj,
                                g.cozgu_iplik_nm, alt)
  IN
  IF ~r5.ok THEN r5 ELSE
  LET toplam_cozgu == r5.val
      toplam_iplik == toplam_iplik_hesapla(toplam_hav, toplam_atki, toplam_cozgu)
  IN hesapla_kur(
       [dtex_degeri |-> Round(dtex, 2),
        nm_degeri |-> Round(nm, 3),
        atki_nm |-> Round(atki_nm, 3),
        hav_tuketim_kg_m2 |-> hav_kg_m2,
        toplam_hav_kg |-> toplam_hav,
        toplam_atki_kg |-> toplam_atki,
        toplam_cozgu_kg |-> toplam_cozgu,
        toplam_iplik_kg |-> toplam_iplik,
        alan_m2 |-> Round(alan_m2, 2)],
       uretim_suresi_hesapla(g.toplam_metraj, g.atki_sikligi, g.makine_hizi,
                             g.verimlilik),
       creel_plani_hesapla(g.tarak_no, g.hali_genisligi, g.renk_sayisi,
                           g.creel_kapasitesi),
       maliyet_hesapla(toplam_hav, toplam_atki, toplam_cozgu,
                       g.iplik_birim_fiyat, g.atki_birim_fiyat,
                       g.cozgu_birim_fiyat, alan_m2))

-----------------------------------------------------------------------------
(* Direct calls of hav_iplik_tuketimi_hesapla                              *)

\* number of 0.01 mm steps above 8.00 mm in the pile heights tried
MaxHavAdim == 2

HavDtex == {Zero, FromInt(120), FromInt(1667)}
HavReed == {0, 100, 600}
HavPick == {0, 100, 700}
HavYukseklik ==
  {Dec(-1, 0), Zero, Dec(5, 1)} \cup {Dec(800 + k, 2) : k \in 0..MaxHavAdim}
HavBaglanti == {Dec(-5, 1), Zero, Dec(15, 1)}
HavFire == {Dec(-1, 2), Zero, Dec(10, 2)}
HavHighBulk == {Dec(99, 2), One, Dec(112, 2)}

HavGirdileri ==
  [dtex : HavDtex, reed : HavReed, pick : HavPick, hav_mm : HavYukseklik,
   baglanti_mm : HavBaglanti, fire_orani : HavFire, high_bulk_faktoru : HavHighBulk]

HavCagri(g) ==
  hav_iplik_tuketimi_hesapla(g.dtex, g.reed, g.pick, g.hav_mm, g.baglanti_mm,
                             g.fire_orani, g.high_bulk_faktoru)

HavInit ==
  /\ pc = "cagri"
  /\ girdi \in HavGirdileri
  /\ sonuc = Err("")
  /\ i = 0
  /\ sonuclar = <<>>
  /\ baz = Zero
  /\ baz_toplam = Zero

HavCalistir ==
  /\ pc = "cagri"
  /\ sonuc' = HavCagri(girdi)
  /\ pc' = "dondu"
  /\ UNCHANGED <<girdi, i, sonuclar, baz, baz_toplam>>

HavNext == HavCalistir

SpecHav == HavInit /\ [][HavNext]_vars

-----------------------------------------------------------------------------
(* Pile-height sweep, fire_optimizasyon_simulasyonu, one loop pass a step  *)

\* largest step count tried
MaxAdimSayisi == 3

SimGirdileri ==
  [dtex : {Zero, FromInt(1667)}, reed : {600}, pick : {700},
   hav_mm : {Dec(4, 3), Dec(30, 1), Dec(80, 1), Dec(8006, 3)},
   baglanti_mm : {Dec(15, 1)}, fire_orani : {Dec(10, 2)},
   high_bulk : {Dec(99, 2), Dec(112, 2)},
   genislik : {Dec(40, 1)}, metraj : {FromInt(5000)},
   hav_fiyat : {FromInt(-85), Zero, FromInt(85)},
   adim_mm : {FromInt(-1), Zero, Dec(4, 3), One},
   adim_sayisi : (-1)..MaxAdimSayisi]

\* the guard accepting a step of exactly 0
adim_gecersiz_sifir_kabul(adim_mm) == QLt(adim_mm, Zero)

\* if adim_mm <= 0: raise
adim_gecersiz(adim_mm) == QLe(adim_mm, Zero)

\* the loop taken as range(adim_sayisi)
dongu_surer_eksik(k, adim_sayisi) == k < adim_sayisi

\* for i in range(adim_sayisi + 1): there is a pass for index k
dongu_surer(k, adim_sayisi) == k <= adim_sayisi

SimAlan(g) == QMul(g.genislik, g.metraj)

SimHav(g, h) ==
  hav_iplik_tuketimi_hesapla(g.dtex, g.reed, g.pick, h, g.baglanti_mm,
                             g.fire_orani, g.high_bulk)

\* h = round(hav_mm - i * adim_mm, 2)
SimYukseklik(g, k) == Round(QSub(g.hav_mm, QMul(FromInt(k), g.adim_mm)), 2)

\* the OptimizasyonSatiri appended for candidate height h
SimSatir(g, h, baz_top) ==
  LET t == SimHav(g, h).val
      toplam == QMul(t, SimAlan(g))
      tas_kg == Round(QSub(baz_top, toplam), 2)
  IN [hav_mm |-> h,
      tuketim_kg_m2 |-> t,
      toplam_kg |-> Round(toplam, 2),
      tasarruf_kg |-> tas_kg,
      tasarruf_tl |-> Round(QMul(tas_kg, g.hav_fiyat), 2)]

SimInit ==
  /\ pc = "cagri"
  /\ girdi \in SimGirdileri
  /\ sonuc = Err("")
  /\ i = 0
  /\ sonuclar = <<>>
  /\ baz = Zero
  /\ baz_toplam = Zero

\* the step check raises
SimAdimHatasi ==
  /\ pc = "cagri"
  /\ adim_gecersiz(girdi.adim_mm)
  /\ sonuc' = Err("Adim mm pozitif olmali")
  /\ pc' = "dondu"
  /\ UNCHANGED <<girdi, i, sonuclar, baz, baz_toplam>>

\* the baseline call raises
SimBazHatasi ==
  /\ pc = "cagri"
  /\ ~adim_gecersiz(girdi.adim_mm)
  /\ ~SimHav(girdi, girdi.hav_mm).ok
  /\ sonuc' = SimHav(girdi, girdi.hav_mm)
  /\ pc' = "dondu"
  /\ UNCHANGED <<girdi, i, sonuclar, baz, baz_toplam>>

\* baz, baz_toplam and the empty list; the loop starts at i = 0
SimBasla ==
  /\ pc = "cagri"
  /\ ~adim_gecersiz(girdi.adim_mm)
  /\ SimHav(girdi, girdi.hav_mm).ok
  /\ baz' = SimHav(girdi, girdi.hav_mm).val
  /\ baz_toplam' = QMul(SimHav(girdi, girdi.hav_mm).val, SimAlan(girdi))
  /\ sonuclar' = <<>>
  /\ i' = 0
  /\ pc' = "dongu"
  /\ UNCHANGED <<girdi, sonuc>>

\* one pass of the loop body that appends a row
SimAdim ==
  /\ pc = "dongu"
  /\ dongu_surer(i, girdi.adim_sayisi)
  /\ QLt(Zero, SimYukseklik(girdi, i))
  /\ sonuclar' = Append(sonuclar, SimSatir(girdi, SimYukseklik(girdi, i), baz_toplam))
  /\ i' = i + 1
  /\ UNCHANGED <<pc, girdi, sonuc, baz, baz_toplam>>

\* break: the candidate height is <= 0
SimKes ==
  /\ pc = "dongu"
  /\ dongu_surer(i, girdi.adim_sayisi)
  /\ QLe(SimYukseklik(girdi, i), Zero)
  /\ sonuc' = Ok(sonuclar)
  /\ pc' = "dondu"
  /\ UNCHANGED <<girdi, i, sonuclar, baz, baz_toplam>>

\* range(adim_sayisi + 1) is exhausted
SimBitir ==
  /\ pc = "dongu"
  /\ ~dongu_surer(i, girdi.adim_sayisi)
  /\ sonuc' = Ok(sonuclar)
  /\ pc' = "dondu"
  /\ UNCHANGED <<girdi, i, sonuclar, baz, baz_toplam>>

SimNext ==
  \/ SimAdimHatasi
  \/ SimBazHatasi
  \/ SimBasla
  \/ SimAdim
  \/ SimKes
  \/ SimBitir

SpecSim == SimInit /\ [][SimNext]_vars

\* a step of a call that has not returned: control moves on (out of the
\* checks, round the loop with the next index, or to the return)
Ilerle ==
  /\ pc # "dondu"
  /\ pc' \in {"dongu", "dondu"}
  /\ i' \in {i, i + 1}

\* a call runs on: no statement of the function waits for anything
SpecSimAdil == SpecSim /\ WF_<<pc, i>>(Ilerle)

-----------------------------------------------------------------------------
(* Calls of hesapla                                                        *)

\* tipik_girdiler() of the test suite
TipikGirdiler ==
  [tarak_no |-> 600, atki_sikligi |-> 700, hav_yuksekligi |-> Dec(80, 1),
   baglanti_payi |-> Dec(15, 1), fire_orani |-> Dec(10, 2),
   high_bulk_faktoru |-> Dec(112, 2),
   iplik_birimi |-> "dtex", iplik_degeri |-> FromInt(1667),
   atki_iplik_ne |-> FromInt(8), cozgu_iplik_nm |-> FromInt(10),
   hali_genisligi |-> Dec(40, 1), toplam_metraj |-> FromInt(5000),
   makine_hizi |-> 300, verimlilik |-> FromInt(80),
   creel_kapasitesi |-> 8000, renk_sayisi |-> 8,
   iplik_birim_fiyat |-> FromInt(85), atki_birim_fiyat |-> FromInt(35),
   cozgu_birim_fiyat |-> FromInt(40)]

\* the other values tried for each field: out of its domain, on its edge, inside
Alternatifler ==
  [tarak_no |-> {0, -600, 480},
   atki_sikligi |-> {0, -700, 800},
   hav_yuksekligi |-> {Zero, FromInt(-1), FromInt(12)},
   baglanti_payi |-> {Dec(-5, 1), Zero},
   fire_orani |-> {Dec(-1, 2), Zero, Dec(5, 2)},
   high_bulk_faktoru |-> {Dec(99, 2), One},
   iplik_birimi |-> {"Nm", "tex"},
   iplik_degeri |-> {Zero, FromInt(-1667), FromInt(6)},
   atki_iplik_ne |-> {Zero, FromInt(-8), FromInt(10)},
   cozgu_iplik_nm |-> {Zero, FromInt(-10), FromInt(12)},
   hali_genisligi |-> {Zero, FromInt(-4), Dec(5, 1), Dec(412, 2)},
   toplam_metraj |-> {Zero, FromInt(-5000), FromInt(1000), Dec(12343, 1)},
   makine_hizi |-> {0, -300, 400},
   verimlilik |-> {Zero, FromInt(-80), FromInt(100), Dec(1005, 1)},
   creel_kapasitesi |-> {0, -8000, 4000},
   renk_sayisi |-> {0, -8, 1},
   iplik_birim_fiyat |-> {FromInt(-85), Zero},
   atki_birim_fiyat |-> {FromInt(-35)},
   cozgu_birim_fiyat |-> {FromInt(-40)}]

\* number of fields that differ from tipik_girdiler() in one record
MaxDegisen == 2

AlanSirasi ==
  <<"tarak_no", "atki_sikligi", "hav_yuksekligi", "baglanti_payi", "fire_orani",
    "high_bulk_faktoru", "iplik_birimi", "iplik_degeri", "atki_iplik_ne",
    "cozgu_iplik_nm", "hali_genisligi", "toplam_metraj", "makine_hizi",
    "verimlilik", "creel_kapasitesi", "renk_sayisi", "iplik_birim_fiyat",
    "atki_birim_fiyat", "cozgu_birim_fiyat">>

\* girdi is g with at most k of the fields AlanSirasi[j..] replaced by one of
\* their other values
RECURSIVE GirdiSec(_, _, _)
GirdiSec(g, j, k) ==
  \/ girdi = g
  \/ /\ k > 0
     /\ \E a \in j..Len(AlanSirasi) :
          \E v \in Alternatifler[AlanSirasi[a]] :
            GirdiSec([g EXCEPT ![AlanSirasi[a]] = v], a + 1, k - 1)

HesaplaInit ==
  /\ pc = "cagri"
  /\ GirdiSec(TipikGirdiler, 1, MaxDegisen)
  /\ sonuc = Err("")
  /\ i = 0
  /\ sonuclar = <<>>
  /\ baz = Zero
  /\ baz_toplam = Zero

HesaplaCalistir ==
  /\ pc = "cagri"
  /\ sonuc' = hesapla(girdi)
  /\ pc' = "dondu"
  /\ UNCHANGED <<girdi, i, sonuclar, baz, baz_toplam>>

HesaplaNext == HesaplaCalistir

SpecHesapla == HesaplaInit /\ [][HesaplaNext]_vars

-----------------------------------------------------------------------------
(* Properties of hav_iplik_tuketimi_hesapla, checked under SpecHav         *)

HavDondu == pc = "dondu"

\* the seven rejected conditions, as the specification lists them
HavAlanDisi(g) ==
  \/ g.dtex.n <= 0
  \/ g.reed <= 0
  \/ g.pick <= 0
  \/ g.hav_mm.n <= 0
  \/ g.baglanti_mm.n < 0
  \/ g.fire_orani.n < 0
  \/ g.high_bulk_faktoru.n < g.high_bulk_faktoru.d

\* C1: the call raises ValueError exactly when one of the seven conditions
\* (dtex <= 0, reed <= 0, pick <= 0, pile height <= 0, binding < 0, waste < 0,
\* high-bulk < 1.0) holds, and otherwise returns a number.
C1_HavDogrulama ==
  HavDondu =>
    /\ HavAlanDisi(girdi) <=> ~sonuc.ok
    /\ ~HavAlanDisi(girdi) => (sonuc.ok /\ sonuc.val.d > 0)

\* a high-bulk factor of 0.99 alone is rejected
C1_Tanik ==
  /\ HavDondu
  /\ girdi.high_bulk_faktoru = Dec(99, 2)
  /\ girdi.dtex.n > 0 /\ girdi.reed > 0 /\ girdi.pick > 0 /\ girdi.hav_mm.n > 0
  /\ girdi.baglanti_mm.n >= 0 /\ girdi.fire_orani.n >= 0
  /\ sonuc = Err("High-Bulk >= 1.0 olmali")

SenaryoA ==
  [dtex |-> FromInt(1667), reed |-> 600, pick |-> 700, hav_mm |-> Dec(80, 1),
   baglanti_mm |-> Dec(15, 1), fire_orani |-> Dec(10, 2),
   high_bulk_faktoru |-> Dec(112, 2)]

\* C2: for every valid input the result is
\* dtex * reed * pick * ((2 * hav + binding) / 1000) * (1 + waste) * high_bulk / 10^7
\* rounded to 4 decimals, and scenario A gives 1.5095.
C2_HavFormul ==
  (HavDondu /\ ~HavAlanDisi(girdi)) =>
    /\ sonuc.ok
    /\ sonuc.val =
         RoundP([num |-> <<girdi.dtex.n, girdi.reed, girdi.pick,
                           QAdd(QMul(FromInt(2), girdi.hav_mm), girdi.baglanti_mm).n,
                           QAdd(One, girdi.fire_orani).n,
                           girdi.high_bulk_faktoru.n>>,
                 den |-> <<girdi.dtex.d,
                           QAdd(QMul(FromInt(2), girdi.hav_mm), girdi.baglanti_mm).d,
                           1000,
                           QAdd(One, girdi.fire_orani).d,
                           girdi.high_bulk_faktoru.d,
                           10000000>>], 4)
    /\ girdi = SenaryoA => sonuc.val = Dec(15095, 4)

C2_Tanik == HavDondu /\ girdi = SenaryoA /\ sonuc = Ok(Dec(15095, 4))

\* the inputs of the model that differ from g in exactly one of the six factors,
\* that factor being larger
HavBuyukKomsular(g) ==
  {[g EXCEPT !.hav_mm = v] : v \in {x \in HavYukseklik : QLt(g.hav_mm, x)}}
  \cup {[g EXCEPT !.reed = v] : v \in {x \in HavReed : g.reed < x}}
  \cup {[g EXCEPT !.pick = v] : v \in {x \in HavPick : g.pick < x}}
  \cup {[g EXCEPT !.fire_orani = v] : v \in {x \in HavFire : QLt(g.fire_orani, x)}}
  \cup {[g EXCEPT !.high_bulk_faktoru = v] :
          v \in {x \in HavHighBulk : QLt(g.high_bulk_faktoru, x)}}
  \cup {[g EXCEPT !.dtex = v] : v \in {x \in HavDtex : QLt(g.dtex, x)}}

\* C3 as stated: a larger factor yields a strictly larger returned consumption.
C3_KesinMonoton ==
  (HavDondu /\ sonuc.ok) =>
    \A b \in HavBuyukKomsular(girdi) : QLt(sonuc.val, HavCagri(b).val)

\* C3 as amended: a larger factor never yields a smaller returned consumption
\* (the rounding to 4 decimals can make the two results equal).
C3_AzalmayanMonoton ==
  (HavDondu /\ sonuc.ok) =>
    \A b \in HavBuyukKomsular(girdi) : QLe(sonuc.val, HavCagri(b).val)

\* 8.00 mm and 8.01 mm of pile both give 0.0019 kg/m2 at dtex 120, reed = pick = 100,
\* while 600 ends/m gives more
C3_Tanik ==
  /\ HavDondu
  /\ girdi = [dtex |-> FromInt(120), reed |-> 100, pick |-> 100,
              hav_mm |-> Dec(800, 2), baglanti_mm |-> Zero, fire_orani |-> Zero,
              high_bulk_faktoru |-> One]
  /\ sonuc = Ok(Dec(19, 4))
  /\ HavCagri([girdi EXCEPT !.hav_mm = Dec(801, 2)]) = sonuc
  /\ QLt(sonuc.val, HavCagri([girdi EXCEPT !.reed = 600]).val)

-----------------------------------------------------------------------------
(* Properties of fire_optimizasyon_simulasyonu, checked under SpecSim      *)

SimDondu == pc = "dondu" /\ sonuc.ok

\* the call's step count and unit price are in their documented domains
SimBelgeli == girdi.adim_sayisi >= 0 /\ girdi.hav_fiyat.n >= 0

\* C4: whenever the sweep returns, the list is non-empty and its first row has
\* the original pile height, zero savings in mass and in currency, and the
\* baseline consumption per m2.  Stated for step counts >= 0 and prices >= 0.
C4_IlkSatirBaz ==
  (SimDondu /\ SimBelgeli) =>
    /\ Len(sonuc.val) > 0
    /\ sonuc.val[1].hav_mm = girdi.hav_mm
    /\ sonuc.val[1].tasarruf_kg = Zero
    /\ sonuc.val[1].tasarruf_tl = Zero
    /\ sonuc.val[1].tuketim_kg_m2 = baz

\* C5: in every returned list the pile heights of consecutive rows are strictly
\* decreasing and every row has pile height > 0.  Stated for step counts >= 0
\* and prices >= 0.
C5_AzalanYukseklik ==
  (SimDondu /\ SimBelgeli) =>
    \A k \in 1..Len(sonuc.val) :
      /\ QLt(Zero, sonuc.val[k].hav_mm)
      /\ k < Len(sonuc.val) => QLt(sonuc.val[k + 1].hav_mm, sonuc.val[k].hav_mm)

\* C6: in every returned list the savings in mass and the savings in currency
\* are non-decreasing from each row to the next.
C6_ArtanTasarruf ==
  SimDondu =>
    \A k \in 1..(Len(sonuc.val) - 1) :
      /\ QLe(sonuc.val[k].tasarruf_kg, sonuc.val[k + 1].tasarruf_kg)
      /\ QLe(sonuc.val[k].tasarruf_tl, sonuc.val[k + 1].tasarruf_tl)

\* C7: a step size <= 0 raises ValueError whatever the other arguments are: the
\* loop is never entered, no row is built, and the call ends with that error.
C7_AdimHatasi ==
  girdi.adim_mm.n <= 0 =>
    /\ pc # "dongu"
    /\ sonuclar = <<>>
    /\ pc = "dondu" => sonuc = Err("Adim mm pozitif olmali")

\* a step of 0 with dtex = 0 as well: the step error is the one raised
C7_Tanik ==
  /\ pc = "dondu"
  /\ girdi.adim_mm = Zero
  /\ girdi.dtex = Zero
  /\ girdi.adim_sayisi = -1
  /\ sonuc = Err("Adim mm pozitif olmali")
  /\ sonuclar = <<>>

-----------------------------------------------------------------------------
(* Properties of hesapla, checked under SpecHesapla                        *)

HesaplaDondu == pc = "dondu"

HesaplaAlanlari ==
  {"dtex_degeri", "nm_degeri", "atki_nm", "hav_tuketim_kg_m2", "toplam_hav_kg",
   "toplam_atki_kg", "toplam_cozgu_kg", "toplam_iplik_kg", "alan_m2",
   "sure", "creel", "maliyet"}
SureAlanlari ==
  {"dakika", "saat", "gun_24h", "is_gunu_8h", "vardiya_sayisi", "gun_3vardiya"}
CreelAlanlari ==
  {"toplam_dis", "renk_basi_dis", "renk_basi_bobin", "toplam_bobin",
   "kapasite_asimi", "kullanim_orani"}
MaliyetAlanlari ==
  {"hav_maliyet", "atki_maliyet", "cozgu_maliyet", "toplam", "maliyet_m2"}

\* the eight sub-calculations in the order hesapla calls them, each called
\* directly; a call whose argument comes from a failed earlier call is not made
AltHesaplar(g) ==
  LET r1 == resolve_dtex_nm(g.iplik_birimi, g.iplik_degeri)
      r2 == ne_to_nm(g.atki_iplik_ne)
      yari == QDiv(g.fire_orani, FromInt(2))
      r3 == IF r1.ok
            THEN hav_iplik_tuketimi_hesapla(r1.val[1], g.tarak_no, g.atki_sikligi,
                                            g.hav_yuksekligi, g.baglanti_payi,
                                            g.fire_orani, g.high_bulk_faktoru)
            ELSE r1
      r4 == IF r2.ok
            THEN atki_iplik_hesapla(g.atki_sikligi, g.hali_genisligi,
                                    g.toplam_metraj, r2.val, yari)
            ELSE r2
      r5 == cozgu_iplik_hesapla(g.tarak_no, g.hali_genisligi, g.toplam_metraj,
                                g.cozgu_iplik_nm, yari)
      r6 == uretim_suresi_hesapla(g.toplam_metraj, g.atki_sikligi, g.makine_hizi,
                                  g.verimlilik)
      r7 == creel_plani_hesapla(g.tarak_no, g.hali_genisligi, g.renk_sayisi,
                                g.creel_kapasitesi)
      r8 == IF r3.ok /\ r4.ok /\ r5.ok
            THEN maliyet_hesapla(
                   RoundP(PMul(P(r3.val),
                               P(QMul(g.hali_genisligi, g.toplam_metraj))), 2),
                   r4.val, r5.val, g.iplik_birim_fiyat, g.atki_birim_fiyat,
                   g.cozgu_birim_fiyat, QMul(g.hali_genisligi, g.toplam_metraj))
            ELSE r3
  IN <<r1, r2, r3, r4, r5, r6, r7, r8>>

Basarisizlar(rs) == {k \in DOMAIN rs : ~rs[k].ok}

IlkBasarisiz(rs) == CHOOSE k \in Basarisizlar(rs) : \A m \in Basarisizlar(rs) : k <= m

\* C8: hesapla either returns a complete record, every field and sub-record
\* filled, or raises the error of the first failing sub-calculation unchanged.
C8_TamYaDaHata ==
  HesaplaDondu =>
    LET rs == AltHesaplar(girdi)
    IN IF Basarisizlar(rs) = {}
       THEN /\ sonuc.ok
            /\ DOMAIN sonuc.val = HesaplaAlanlari
            /\ DOMAIN sonuc.val.sure = SureAlanlari
            /\ DOMAIN sonuc.val.creel = CreelAlanlari
            /\ DOMAIN sonuc.val.maliyet = MaliyetAlanlari
            /\ sonuc.val.sure = rs[6].val
            /\ sonuc.val.creel = rs[7].val
            /\ sonuc.val.maliyet = rs[8].val
       ELSE /\ ~sonuc.ok
            /\ sonuc.err = rs[IlkBasarisiz(rs)].err

\* pile height 0 and colour count 0: the pile calculator's error is raised
C8_Tanik ==
  /\ HesaplaDondu
  /\ girdi = [TipikGirdiler EXCEPT !.hav_yuksekligi = Zero, !.renk_sayisi = 0]
  /\ sonuc = Err("Hav yuksekligi pozitif olmali")
  /\ ~AltHesaplar(girdi)[7].ok

\* a field outside the domain the data model documents for it
GirdiAlanDisi(g) ==
  \/ g.tarak_no <= 0
  \/ g.atki_sikligi <= 0
  \/ g.hav_yuksekligi.n <= 0
  \/ g.baglanti_payi.n < 0
  \/ g.fire_orani.n < 0
  \/ g.high_bulk_faktoru.n < g.high_bulk_faktoru.d
  \/ g.iplik_birimi \notin {"dtex", "Nm"}
  \/ g.iplik_degeri.n <= 0
  \/ g.atki_iplik_ne.n <= 0
  \/ g.cozgu_iplik_nm.n <= 0
  \/ g.hali_genisligi.n <= 0
  \/ g.toplam_metraj.n <= 0
  \/ g.makine_hizi <= 0
  \/ g.verimlilik.n <= 0
  \/ g.verimlilik.n > 100 * g.verimlilik.d
  \/ g.creel_kapasitesi <= 0
  \/ g.renk_sayisi < 1

\* C9: hesapla raises ValueError for every record with a field outside its
\* documented domain.
C9_AlanDisiHata == (HesaplaDondu /\ GirdiAlanDisi(girdi)) => ~sonuc.ok

\* an efficiency of 100.5, everything else typical
C9_Tanik ==
  /\ HesaplaDondu
  /\ girdi = [TipikGirdiler EXCEPT !.verimlilik = Dec(1005, 1)]
  /\ sonuc = Err("Verimlilik 0-100")

\* C10: the weft and warp totals are computed with half of the waste fraction,
\* the pile consumption with the full one.
C10_YariFire ==
  (HesaplaDondu /\ sonuc.ok) =>
    /\ sonuc.val.toplam_atki_kg =
         atki_iplik_hesapla(girdi.atki_sikligi, girdi.hali_genisligi,
                            girdi.toplam_metraj, ne_to_nm(girdi.atki_iplik_ne).val,
                            QDiv(girdi.fire_orani, FromInt(2))).val
    /\ sonuc.val.toplam_cozgu_kg =
         cozgu_iplik_hesapla(girdi.tarak_no, girdi.hali_genisligi,
                             girdi.toplam_metraj, girdi.cozgu_iplik_nm,
                             QDiv(girdi.fire_orani, FromInt(2))).val
    /\ sonuc.val.hav_tuketim_kg_m2 =
         hav_iplik_tuketimi_hesapla(
           resolve_dtex_nm(girdi.iplik_birimi, girdi.iplik_degeri).val[1],
           girdi.tarak_no, girdi.atki_sikligi, girdi.hav_yuksekligi,
           girdi.baglanti_payi, girdi.fire_orani, girdi.high_bulk_faktoru).val

\* tipik_girdiler(): waste 0.10, weft 1111.28 kg and warp 1260 kg at 5 per cent
C10_Tanik ==
  /\ HesaplaDondu
  /\ girdi = TipikGirdiler
  /\ sonuc.ok
  /\ sonuc.val.toplam_atki_kg = Dec(111128, 2)
  /\ sonuc.val.toplam_cozgu_kg = FromInt(1260)
  /\ sonuc.val.hav_tuketim_kg_m2 = Dec(15095, 4)

\* C11 as stated: toplam_iplik_kg is the sum of the three reported totals
\* rounded to 2 decimals, toplam_hav_kg is the reported consumption per m2
\* times width x length rounded to 2 decimals, alan_m2 equals width x length.
C11_ToplamlarAlanTam ==
  (HesaplaDondu /\ sonuc.ok) =>
    /\ sonuc.val.toplam_iplik_kg =
         Round(QAdd(QAdd(sonuc.val.toplam_hav_kg, sonuc.val.toplam_atki_kg),
                    sonuc.val.toplam_cozgu_kg), 2)
    /\ sonuc.val.toplam_hav_kg =
         RoundP(PMul(P(sonuc.val.hav_tuketim_kg_m2),
                     PMul(P(girdi.hali_genisligi), P(girdi.toplam_metraj))), 2)
    /\ sonuc.val.alan_m2 = QMul(girdi.hali_genisligi, girdi.toplam_metraj)

\* C11 as amended: the same, with alan_m2 equal to width x length rounded to
\* 2 decimals.
C11_Toplamlar ==
  (HesaplaDondu /\ sonuc.ok) =>
    /\ sonuc.val.toplam_iplik_kg =
         Round(QAdd(QAdd(sonuc.val.toplam_hav_kg, sonuc.val.toplam_atki_kg),
                    sonuc.val.toplam_cozgu_kg), 2)
    /\ sonuc.val.toplam_hav_kg =
         RoundP(PMul(P(sonuc.val.hav_tuketim_kg_m2),
                     PMul(P(girdi.hali_genisligi), P(girdi.toplam_metraj))), 2)
    /\ sonuc.val.alan_m2 =
         Round(QMul(girdi.hali_genisligi, girdi.toplam_metraj), 2)

\* width 4.12 m and length 1234.3 m: the area 5085.316 m2 is reported as 5085.32
C11_Tanik ==
  /\ HesaplaDondu
  /\ girdi = [TipikGirdiler EXCEPT !.hali_genisligi = Dec(412, 2),
                                   !.toplam_metraj = Dec(12343, 1)]
  /\ sonuc.ok
  /\ sonuc.val.alan_m2 = Dec(508532, 2)
  /\ sonuc.val.toplam_iplik_kg =
       QAdd(QAdd(sonuc.val.toplam_hav_kg, sonuc.val.toplam_atki_kg),
            sonuc.val.toplam_cozgu_kg)

QAbs(a) == [n |-> Abs(a.n), d |-> a.d]

\* the distance of dtex x nm from 10000
DtexNmSapma(dtex, nm) == QAbs(QSub(QMul(dtex, nm), FromInt(10000)))

\* C12 as stated: for every unit and every yarn value > 0 the pair returned by
\* resolve_dtex_nm and the pair (dtex_degeri, nm_degeri) reported by hesapla
\* have a product that differs from 10000 by less than 0.5.
C12_DtexNmYarim ==
  /\ (girdi.iplik_birimi \in {"dtex", "Nm"} /\ girdi.iplik_degeri.n > 0) =>
       LET r == resolve_dtex_nm(girdi.iplik_birimi, girdi.iplik_degeri)
       IN r.ok /\ QLt(DtexNmSapma(r.val[1], r.val[2]), Dec(5, 1))
  /\ (HesaplaDondu /\ sonuc.ok) =>
       QLt(DtexNmSapma(sonuc.val.dtex_degeri, sonuc.val.nm_degeri), Dec(5, 1))

\* C12 as amended: the pair returned by resolve_dtex_nm has the product 10000;
\* hesapla reports that pair rounded to 2 and to 3 decimals, so the product of
\* the reported pair differs from 10000 by at most
\* 0.0005 x dtex_degeri + 0.005 x nm_degeri + 0.00001.
C12_DtexNm ==
  /\ (girdi.iplik_birimi \in {"dtex", "Nm"} /\ girdi.iplik_degeri.n > 0) =>
       LET r == resolve_dtex_nm(girdi.iplik_birimi, girdi.iplik_degeri)
       IN r.ok /\ QMul(r.val[1], r.val[2]) = FromInt(10000)
  /\ (HesaplaDondu /\ sonuc.ok) =>
       LET r == resolve_dtex_nm(girdi.iplik_birimi, girdi.iplik_degeri)
       IN /\ sonuc.val.dtex_degeri = Round(r.val[1], 2)
          /\ sonuc.val.nm_degeri = Round(r.val[2], 3)
          /\ QLe(DtexNmSapma(sonuc.val.dtex_degeri, sonuc.val.nm_degeri),
                 QAdd(QAdd(QMul(Dec(5, 4), sonuc.val.dtex_degeri),
                           QMul(Dec(5, 3), sonuc.val.nm_degeri)),
                      Q(1, 100000)))

\* 1667 Nm: reported as 6.0 dtex and 1667.0 Nm, whose product is 10002
C12_Tanik ==
  /\ HesaplaDondu
  /\ girdi = [TipikGirdiler EXCEPT !.iplik_birimi = "Nm"]
  /\ sonuc.ok
  /\ sonuc.val.dtex_degeri = FromInt(6)
  /\ sonuc.val.nm_degeri = FromInt(1667)
  /\ DtexNmSapma(sonuc.val.dtex_degeri, sonuc.val.nm_degeri) = FromInt(2)

-----------------------------------------------------------------------------
(* Direct calls of creel_plani_hesapla                                     *)

\* the largest colour count tried
MaxRenk == 8

CreelReed == {-7, 0, 1, 100, 600, 6000}
CreelGenislik == {FromInt(-1), Zero, Dec(25, 2), Dec(5, 1), Dec(113, 2), FromInt(4)}
CreelRenk == {-1, 0, 24} \cup (1..MaxRenk)
CreelKapasite == {-1, 0, 10, 4800, 7000, 8000, 47999, 200000}

CreelGirdileri ==
  [reed : CreelReed, genislik_m : CreelGenislik, renk_sayisi : CreelRenk,
   creel_kapasitesi : CreelKapasite]

CreelInit ==
  /\ pc = "cagri"
  /\ girdi \in CreelGirdileri
  /\ sonuc = Err("")
  /\ i = 0
  /\ sonuclar = <<>>
  /\ baz = Zero
  /\ baz_toplam = Zero

CreelCalistir ==
  /\ pc = "cagri"
  /\ sonuc' = creel_plani_hesapla(girdi.reed, girdi.genislik_m, girdi.renk_sayisi,
                                  girdi.creel_kapasitesi)
  /\ pc' = "dondu"
  /\ UNCHANGED <<girdi, i, sonuclar, baz, baz_toplam>>

CreelNext == CreelCalistir

SpecCreel == CreelInit /\ [][CreelNext]_vars

-----------------------------------------------------------------------------
(* Properties of creel_plani_hesapla, checked under SpecCreel              *)

CreelDondu == pc = "dondu"

\* scenario B: reed 600, width 4.0 m, 8 colours, capacity 8000
SenaryoB ==
  [reed |-> 600, genislik_m |-> FromInt(4), renk_sayisi |-> 8,
   creel_kapasitesi |-> 8000]

\* C13: every returned plan has toplam_bobin = renk_basi_bobin x renk_sayisi x 2.
C13_CiftKatsayi ==
  (CreelDondu /\ sonuc.ok) =>
    sonuc.val.toplam_bobin = sonuc.val.renk_basi_bobin * girdi.renk_sayisi * 2

\* scenario B: 300 bobbins per colour, 8 colours, 4800 bobbins
C13_Tanik ==
  /\ CreelDondu
  /\ girdi = SenaryoB
  /\ sonuc.ok
  /\ sonuc.val.renk_basi_bobin = 300
  /\ sonuc.val.toplam_bobin = 4800

\* C14: for every accepted input toplam_dis = floor(reed x width) and
\* renk_basi_bobin = ceiling(toplam_dis / renk_sayisi) of the unrounded quotient;
\* with one colour renk_basi_bobin = toplam_dis; scenario B gives 2400 ends, 300
\* bobbins per colour, 4800 bobbins, capacity not exceeded.  Stated for reed > 0,
\* the documented domain of the reed density.
C14_DisVeBobin ==
  (CreelDondu /\ sonuc.ok /\ girdi.reed > 0) =>
    /\ sonuc.val.toplam_dis = Floor(QMul(FromInt(girdi.reed), girdi.genislik_m))
    /\ sonuc.val.renk_basi_bobin = Ceil(Q(sonuc.val.toplam_dis, girdi.renk_sayisi))
    /\ girdi.renk_sayisi = 1 => sonuc.val.renk_basi_bobin = sonuc.val.toplam_dis
    /\ girdi = SenaryoB =>
         /\ sonuc.val.toplam_dis = 2400
         /\ sonuc.val.renk_basi_bobin = 300
         /\ sonuc.val.toplam_bobin = 4800
         /\ ~sonuc.val.kapasite_asimi

\* C15 as stated: kapasite_asimi is true exactly when toplam_bobin exceeds the
\* capacity, and kullanim_orani is toplam_bobin / creel_kapasitesi.  Stated for
\* reed > 0, the documented domain of the reed density.
C15_KapasiteTam ==
  (CreelDondu /\ sonuc.ok /\ girdi.reed > 0) =>
    /\ sonuc.val.kapasite_asimi <=> sonuc.val.toplam_bobin > girdi.creel_kapasitesi
    /\ sonuc.val.kullanim_orani = Q(sonuc.val.toplam_bobin, girdi.creel_kapasitesi)

\* C15 as amended: kapasite_asimi is true exactly when toplam_bobin exceeds the
\* capacity, and kullanim_orani is toplam_bobin / creel_kapasitesi rounded to 4
\* decimals: a multiple of 0.0001 at most 0.00005 away from the quotient.
C15_Kapasite ==
  (CreelDondu /\ sonuc.ok) =>
    /\ sonuc.val.kapasite_asimi <=> sonuc.val.toplam_bobin > girdi.creel_kapasitesi
    /\ 10000 % sonuc.val.kullanim_orani.d = 0
    /\ QLe(QAbs(QSub(sonuc.val.kullanim_orani,
                     Q(sonuc.val.toplam_bobin, girdi.creel_kapasitesi))),
           Q(1, 20000))

\* 4800 bobbins on a creel of 7000: not exceeded, utilisation reported as 0.6857
C15_Tanik ==
  /\ CreelDondu
  /\ girdi = [SenaryoB EXCEPT !.creel_kapasitesi = 7000]
  /\ sonuc.ok
  /\ sonuc.val.toplam_bobin = 4800
  /\ ~sonuc.val.kapasite_asimi
  /\ sonuc.val.kullanim_orani = Dec(6857, 4)

\* C16: a colour count <= 0, a capacity <= 0 or a width <= 0 raises ValueError;
\* the call never ends in a division by zero.
C16_CreelHata ==
  CreelDondu =>
    /\ (girdi.renk_sayisi <= 0 \/ girdi.creel_kapasitesi <= 0
          \/ girdi.genislik_m.n <= 0) =>
         /\ ~sonuc.ok
         /\ sonuc.err \in {"Renk sayisi pozitif olmali",
                           "Creel kapasitesi pozitif olmali",
                           "Genislik pozitif olmali"}
    /\ ~sonuc.ok => sonuc.err # "ZeroDivisionError"

\* 8 colours on a creel of capacity 0: rejected before the utilisation is divided
C16_Tanik ==
  /\ CreelDondu
  /\ girdi = [SenaryoB EXCEPT !.creel_kapasitesi = 0]
  /\ sonuc = Err("Creel kapasitesi pozitif olmali")

-----------------------------------------------------------------------------
(* Direct calls of maliyet_hesapla                                         *)

\* the pile masses tried are 0, 1000, ..., 1000 x MaxKutle kg
MaxKutle == 2

MaliyetGirdileri ==
  [hav_kg : {FromInt(-1000), Dec(12, 2)} \cup {FromInt(1000 * k) : k \in 0..MaxKutle},
   atki_kg : {Dec(12, 2), FromInt(200)},
   cozgu_kg : {Dec(12, 2), FromInt(150)},
   hav_fiyat : {FromInt(-85), Dec(12, 2), FromInt(85)},
   atki_fiyat : {FromInt(-35), Dec(12, 2), FromInt(35)},
   cozgu_fiyat : {FromInt(-40), Dec(12, 2), FromInt(40)},
   alan_m2 : {FromInt(-500), Zero, One, FromInt(20000)}]

MaliyetInit ==
  /\ pc = "cagri"
  /\ girdi \in MaliyetGirdileri
  /\ sonuc = Err("")
  /\ i = 0
  /\ sonuclar = <<>>
  /\ baz = Zero
  /\ baz_toplam = Zero

MaliyetCalistir ==
  /\ pc = "cagri"
  /\ sonuc' = maliyet_hesapla(girdi.hav_kg, girdi.atki_kg, girdi.cozgu_kg,
                              girdi.hav_fiyat, girdi.atki_fiyat, girdi.cozgu_fiyat,
                              girdi.alan_m2)
  /\ pc' = "dondu"
  /\ UNCHANGED <<girdi, i, sonuclar, baz, baz_toplam>>

MaliyetNext == MaliyetCalistir

SpecMaliyet == MaliyetInit /\ [][MaliyetNext]_vars

-----------------------------------------------------------------------------
(* Properties of maliyet_hesapla, checked under SpecMaliyet                *)

MaliyetDondu == pc = "dondu"

\* scenario C: masses (1000, 200, 150) kg, prices (85, 35, 40), area 20000 m2
SenaryoC ==
  [hav_kg |-> FromInt(1000), atki_kg |-> FromInt(200), cozgu_kg |-> FromInt(150),
   hav_fiyat |-> FromInt(85), atki_fiyat |-> FromInt(35),
   cozgu_fiyat |-> FromInt(40), alan_m2 |-> FromInt(20000)]

\* mass x price of a category whose price is not negative, 0 otherwise
Katki(kg, fiyat) == IF fiyat.n < 0 THEN Zero ELSE QMul(kg, fiyat)

\* the sum of the three contributions
KatkiToplami(g) ==
  QAdd(QAdd(Katki(g.hav_kg, g.hav_fiyat), Katki(g.atki_kg, g.atki_fiyat)),
       Katki(g.cozgu_kg, g.cozgu_fiyat))

\* a is a whole number of hundredths at most 0.005 away from b
Kurus(a, b) == 100 % a.d = 0 /\ QLe(QAbs(QSub(a, b)), Dec(5, 3))

\* the reported cost of a category whose price is not negative, 0 otherwise
Bildirilen(maliyet, fiyat) == IF fiyat.n < 0 THEN Zero ELSE maliyet

\* C17 as stated: for any masses and an area > 0 no error is raised, a category
\* whose unit price is negative has the reported cost exactly 0, and the total
\* equals the sum over the other categories (of their costs mass x price, or
\* of their reported costs).
C17_NegatifFiyatTam ==
  (MaliyetDondu /\ girdi.alan_m2.n > 0) =>
    /\ sonuc.ok
    /\ girdi.hav_fiyat.n < 0 => sonuc.val.hav_maliyet = Zero
    /\ girdi.atki_fiyat.n < 0 => sonuc.val.atki_maliyet = Zero
    /\ girdi.cozgu_fiyat.n < 0 => sonuc.val.cozgu_maliyet = Zero
    /\ \/ sonuc.val.toplam = KatkiToplami(girdi)
       \/ sonuc.val.toplam =
            QAdd(QAdd(Bildirilen(sonuc.val.hav_maliyet, girdi.hav_fiyat),
                      Bildirilen(sonuc.val.atki_maliyet, girdi.atki_fiyat)),
                 Bildirilen(sonuc.val.cozgu_maliyet, girdi.cozgu_fiyat))

\* C17 as amended: for any masses and an area > 0 no error is raised, a
\* category whose unit price is negative has the reported cost exactly 0, and
\* the total is the sum over the other categories rounded to 2 decimals.
C17_NegatifFiyat ==
  (MaliyetDondu /\ girdi.alan_m2.n > 0) =>
    /\ sonuc.ok
    /\ girdi.hav_fiyat.n < 0 => sonuc.val.hav_maliyet = Zero
    /\ girdi.atki_fiyat.n < 0 => sonuc.val.atki_maliyet = Zero
    /\ girdi.cozgu_fiyat.n < 0 => sonuc.val.cozgu_maliyet = Zero
    /\ Kurus(sonuc.val.toplam, KatkiToplami(girdi))

\* a pile price of -85: the pile costs 0 and the total is 7000 + 6000
C17_Tanik ==
  /\ MaliyetDondu
  /\ girdi = [SenaryoC EXCEPT !.hav_fiyat = FromInt(-85)]
  /\ sonuc.ok
  /\ sonuc.val.hav_maliyet = Zero
  /\ sonuc.val.toplam = FromInt(13000)

\* C18 as stated: each category cost is mass x clamped price, toplam is the sum
\* of the three reported category costs, maliyet_m2 is toplam / alan_m2, and
\* scenario C gives the total 98500 and 4.925 per m2.
C18_MaliyetTam ==
  (MaliyetDondu /\ sonuc.ok) =>
    /\ sonuc.val.hav_maliyet = Katki(girdi.hav_kg, girdi.hav_fiyat)
    /\ sonuc.val.atki_maliyet = Katki(girdi.atki_kg, girdi.atki_fiyat)
    /\ sonuc.val.cozgu_maliyet = Katki(girdi.cozgu_kg, girdi.cozgu_fiyat)
    /\ sonuc.val.toplam =
         QAdd(QAdd(sonuc.val.hav_maliyet, sonuc.val.atki_maliyet),
              sonuc.val.cozgu_maliyet)
    /\ sonuc.val.maliyet_m2 = QDiv(sonuc.val.toplam, girdi.alan_m2)
    /\ girdi = SenaryoC =>
         sonuc.val.toplam = FromInt(98500) /\ sonuc.val.maliyet_m2 = Dec(4925, 3)

\* the arithmetic of scenario C alone: total 98500 and cost per m2 4.925
C18_SenaryoCYanlis ==
  (MaliyetDondu /\ girdi = SenaryoC) =>
    sonuc.ok /\ sonuc.val.toplam = FromInt(98500)
             /\ sonuc.val.maliyet_m2 = Dec(4925, 3)

\* C18 as amended: each reported category cost is mass x clamped price rounded
\* to 2 decimals, toplam is the sum of the three unrounded costs rounded to 2
\* decimals, maliyet_m2 is that sum divided by the area rounded to 2 decimals,
\* and scenario C gives the total 98000 and 4.9 per m2.
C18_Maliyet ==
  (MaliyetDondu /\ sonuc.ok) =>
    /\ Kurus(sonuc.val.hav_maliyet, Katki(girdi.hav_kg, girdi.hav_fiyat))
    /\ Kurus(sonuc.val.atki_maliyet, Katki(girdi.atki_kg, girdi.atki_fiyat))
    /\ Kurus(sonuc.val.cozgu_maliyet, Katki(girdi.cozgu_kg, girdi.cozgu_fiyat))
    /\ Kurus(sonuc.val.toplam, KatkiToplami(girdi))
    /\ Kurus(sonuc.val.maliyet_m2, QDiv(KatkiToplami(girdi), girdi.alan_m2))
    /\ girdi = SenaryoC =>
         sonuc.val.toplam = FromInt(98000) /\ sonuc.val.maliyet_m2 = Dec(49, 1)

\* 0.12 kg at 0.12 per kg in each category on 1 m2: every cost is reported as
\* 0.01 and the total as 0.04
C18_Tanik ==
  /\ MaliyetDondu
  /\ girdi = [hav_kg |-> Dec(12, 2), atki_kg |-> Dec(12, 2), cozgu_kg |-> Dec(12, 2),
              hav_fiyat |-> Dec(12, 2), atki_fiyat |-> Dec(12, 2),
              cozgu_fiyat |-> Dec(12, 2), alan_m2 |-> One]
  /\ sonuc.ok
  /\ sonuc.val.hav_maliyet = Dec(1, 2)
  /\ sonuc.val.atki_maliyet = Dec(1, 2)
  /\ sonuc.val.cozgu_maliyet = Dec(1, 2)
  /\ sonuc.val.toplam = Dec(4, 2)
  /\ sonuc.val.maliyet_m2 = Dec(4, 2)

\* C19: the call raises ValueError exactly when alan_m2 <= 0, whatever the
\* masses and prices are, negative ones included.
C19_AlanHatasi ==
  MaliyetDondu =>
    /\ girdi.alan_m2.n <= 0 <=> ~sonuc.ok
    /\ ~sonuc.ok => sonuc.err = "Alan m2 pozitif olmali"

\* an area of 0 with a negative mass and negative prices
C19_Tanik ==
  /\ MaliyetDondu
  /\ girdi.alan_m2 = Zero
  /\ girdi.hav_kg = FromInt(-1000)
  /\ girdi.hav_fiyat = FromInt(-85)
  /\ girdi.atki_fiyat = FromInt(-35)
  /\ sonuc = Err("Alan m2 pozitif olmali")

-----------------------------------------------------------------------------
(* Direct calls of uretim_suresi_hesapla                                   *)

\* the lengths tried are 5000, ..., 5000 x MaxMetrajKat m besides the fixed ones
MaxMetrajKat == 2

SureGirdileri ==
  [metraj : {FromInt(-100), Zero, Dec(1, 3), Dec(1, 2)}
              \cup {FromInt(5000 * k) : k \in 1..MaxMetrajKat},
   atki_sikligi : {0, 1, 700},
   rpm : {-300, 0, 1, 300},
   verimlilik_yuzde : {FromInt(-80), Zero, FromInt(50), FromInt(80), FromInt(100),
                       Dec(1005, 1), FromInt(101)}]

SureInit ==
  /\ pc = "cagri"
  /\ girdi \in SureGirdileri
  /\ sonuc = Err("")
  /\ i = 0
  /\ sonuclar = <<>>
  /\ baz = Zero
  /\ baz_toplam = Zero

SureCalistir ==
  /\ pc = "cagri"
  /\ sonuc' = uretim_suresi_hesapla(girdi.metraj, girdi.atki_sikligi, girdi.rpm,
                                    girdi.verimlilik_yuzde)
  /\ pc' = "dondu"
  /\ UNCHANGED <<girdi, i, sonuclar, baz, baz_toplam>>

SureNext == SureCalistir

SpecSure == SureInit /\ [][SureNext]_vars

-----------------------------------------------------------------------------
(* Properties of uretim_suresi_hesapla, checked under SpecSure             *)

SureDondu == pc = "dondu"

\* speed <= 0, efficiency <= 0 or > 100, or length <= 0
SureGecersiz(g) ==
  \/ g.rpm <= 0
  \/ QLe(g.verimlilik_yuzde, Zero)
  \/ QLt(FromInt(100), g.verimlilik_yuzde)
  \/ QLe(g.metraj, Zero)

\* efficiency exactly 100 with positive length, weft density and speed
TamVerim(g) ==
  /\ g.verimlilik_yuzde = FromInt(100)
  /\ QLt(Zero, g.metraj)
  /\ g.atki_sikligi > 0
  /\ g.rpm > 0

\* metraj x atki_sikligi / rpm, the minutes at efficiency 100 before rounding
HamDakika(g) == QDiv(QMul(g.metraj, FromInt(g.atki_sikligi)), FromInt(g.rpm))

\* C20 as stated: the call raises when speed <= 0, when efficiency <= 0 or
\* > 100, or when length <= 0, and at efficiency exactly 100 it returns
\* positive minutes for positive length, weft density and speed.
C20_SureHataPozitif ==
  SureDondu =>
    /\ SureGecersiz(girdi) => ~sonuc.ok
    /\ TamVerim(girdi) => sonuc.ok /\ QLt(Zero, sonuc.val.dakika)

\* C20 as amended: the call raises when speed <= 0, when efficiency <= 0 or
\* > 100, or when length <= 0, and at efficiency exactly 100 it returns, for
\* positive length, weft density and speed, minutes that are never negative
\* and are positive whenever metraj x atki_sikligi / rpm exceeds 0.05.
C20_SureHata ==
  SureDondu =>
    /\ SureGecersiz(girdi) => ~sonuc.ok
    /\ TamVerim(girdi) =>
         /\ sonuc.ok
         /\ QLe(Zero, sonuc.val.dakika)
         /\ QLt(Dec(5, 2), HamDakika(girdi)) => QLt(Zero, sonuc.val.dakika)

\* 5000 m at 700 picks per m, 300 rpm and efficiency 100: 11666.7 minutes
C20_Tanik ==
  /\ SureDondu
  /\ girdi = [metraj |-> FromInt(5000), atki_sikligi |-> 700, rpm |-> 300,
              verimlilik_yuzde |-> FromInt(100)]
  /\ sonuc.ok
  /\ sonuc.val.dakika = Dec(116667, 1)

\* q, a decimal of at most k places, in units of 10^-k
Birim(q, k) == q.n * (Pow10(k) \div q.d)

\* C21: every UretimSuresi returned has is_gunu_8h equal to vardiya_sayisi,
\* both hours / 8, and saat = dakika / 60 and gun_24h = saat / 24, each up to
\* the rounding of the fields (dakika and the two shift fields to 1 decimal,
\* saat and gun_24h to 2).
C21_SureTutarli ==
  (SureDondu /\ sonuc.ok) =>
    LET D == Birim(sonuc.val.dakika, 1)
        S == Birim(sonuc.val.saat, 2)
        G == Birim(sonuc.val.gun_24h, 2)
        V == Birim(sonuc.val.is_gunu_8h, 1)
    IN /\ sonuc.val.is_gunu_8h = sonuc.val.vardiya_sayisi
       /\ Abs(80 * V - S) <= 40
       /\ Abs(6 * S - D) <= 3
       /\ Abs(24 * G - S) <= 12

\* the test's call: 5000 m, 700 picks per m, 300 rpm, efficiency 80
C21_Tanik ==
  /\ SureDondu
  /\ girdi = [metraj |-> FromInt(5000), atki_sikligi |-> 700, rpm |-> 300,
              verimlilik_yuzde |-> FromInt(80)]
  /\ sonuc.ok
  /\ sonuc.val.dakika = Dec(145833, 1)
  /\ sonuc.val.saat = Dec(24306, 2)
  /\ sonuc.val.gun_24h = Dec(1013, 2)
  /\ sonuc.val.is_gunu_8h = Dec(304, 1)
  /\ sonuc.val.vardiya_sayisi = Dec(304, 1)

\* the call of uretim_suresi_hesapla with the arguments g
SureCagri(g) ==
  uretim_suresi_hesapla(g.metraj, g.atki_sikligi, g.rpm, g.verimlilik_yuzde)

\* valid arguments: the three guards pass and the weft density is positive
SureGecerli(g) == ~SureGecersiz(g) /\ g.atki_sikligi > 0

\* the minutes of g before rounding
HamSure(g) ==
  QDiv(QMul(g.metraj, FromInt(100 * g.atki_sikligi)),
       QMul(FromInt(g.rpm), g.verimlilik_yuzde))

\* the valid arguments that differ from g in a higher efficiency or in a
\* higher machine speed only
DahaHizli(g) ==
  {h \in SureGirdileri :
     /\ SureGecerli(h)
     /\ h.metraj = g.metraj
     /\ h.atki_sikligi = g.atki_sikligi
     /\ \/ h.rpm = g.rpm /\ QLt(g.verimlilik_yuzde, h.verimlilik_yuzde)
        \/ h.rpm > g.rpm /\ h.verimlilik_yuzde = g.verimlilik_yuzde}

\* g with twice the length
IkiKat(g) == [g EXCEPT !.metraj = QMul(FromInt(2), g.metraj)]

\* C22 as stated: for valid inputs, doubling the length doubles the reported
\* minutes, and the reported minutes strictly decrease when the efficiency or
\* the machine speed increases, the other arguments fixed.
C22_LineerAzalanTam ==
  (SureDondu /\ SureGecerli(girdi)) =>
    /\ sonuc.ok
    /\ SureCagri(IkiKat(girdi)).val.dakika = QMul(FromInt(2), sonuc.val.dakika)
    /\ \A h \in DahaHizli(girdi) : QLt(SureCagri(h).val.dakika, sonuc.val.dakika)

\* C22 as amended: for valid inputs, doubling the length doubles the reported
\* minutes to within 0.1 (1 decimal is reported), and the reported minutes
\* never increase when the efficiency or the machine speed increases, and
\* strictly decrease whenever the minutes before rounding differ by more
\* than 0.1.
C22_LineerAzalan ==
  (SureDondu /\ SureGecerli(girdi)) =>
    /\ sonuc.ok
    /\ Abs(Birim(SureCagri(IkiKat(girdi)).val.dakika, 1)
             - 2 * Birim(sonuc.val.dakika, 1)) <= 1
    /\ \A h \in DahaHizli(girdi) :
         /\ QLe(SureCagri(h).val.dakika, sonuc.val.dakika)
         /\ QLt(Dec(1, 1), QSub(HamSure(girdi), HamSure(h)))
              => QLt(SureCagri(h).val.dakika, sonuc.val.dakika)

\* 5000 m at efficiency 80: 14583.3 minutes, 29166.7 for 10000 m and 11666.7
\* at efficiency 100
C22_Tanik ==
  /\ SureDondu
  /\ girdi = [metraj |-> FromInt(5000), atki_sikligi |-> 700, rpm |-> 300,
              verimlilik_yuzde |-> FromInt(80)]
  /\ sonuc.ok
  /\ sonuc.val.dakika = Dec(145833, 1)
  /\ SureCagri(IkiKat(girdi)).val.dakika = Dec(291667, 1)
  /\ [girdi EXCEPT !.verimlilik_yuzde = FromInt(100)] \in DahaHizli(girdi)
  /\ SureCagri([girdi EXCEPT !.verimlilik_yuzde = FromInt(100)]).val.dakika
       = Dec(116667, 1)

-----------------------------------------------------------------------------
(* Direct calls of atki_iplik_hesapla and cozgu_iplik_hesapla              *)

\* the lengths tried are 1000, ..., 1000 x MaxKat m besides the fixed ones,
\* and lengths and widths are multiplied by 1, ..., MaxKat + 1
MaxKat == 2

\* hesap names the calculator; yogunluk is its pick or reed argument and nm
\* its atki_nm or cozgu_nm argument
IplikGirdileri ==
  [hesap : {"atki", "cozgu"},
   yogunluk : {-700, 0, 600, 700},
   genislik_m : {FromInt(-4), Zero, FromInt(2), Dec(412, 2)},
   metraj : {FromInt(-100), Zero, Dec(12343, 1)}
              \cup {FromInt(1000 * k) : k \in 1..MaxKat},
   nm : {FromInt(-5), Zero, FromInt(10), Dec(13228, 3)},
   fire_orani : {Dec(-5, 1), Zero, Dec(5, 2)}]

IplikInit ==
  /\ pc = "cagri"
  /\ girdi \in IplikGirdileri
  /\ sonuc = Err("")
  /\ i = 0
  /\ sonuclar = <<>>
  /\ baz = Zero
  /\ baz_toplam = Zero

AtkiCalistir ==
  /\ pc = "cagri"
  /\ girdi.hesap = "atki"
  /\ sonuc' = atki_iplik_hesapla(girdi.yogunluk, girdi.genislik_m, girdi.metraj,
                                 girdi.nm, girdi.fire_orani)
  /\ pc' = "dondu"
  /\ UNCHANGED <<girdi, i, sonuclar, baz, baz_toplam>>

CozguCalistir ==
  /\ pc = "cagri"
  /\ girdi.hesap = "cozgu"
  /\ sonuc' = cozgu_iplik_hesapla(girdi.yogunluk, girdi.genislik_m, girdi.metraj,
                                  girdi.nm, girdi.fire_orani)
  /\ pc' = "dondu"
  /\ UNCHANGED <<girdi, i, sonuclar, baz, baz_toplam>>

IplikNext == AtkiCalistir \/ CozguCalistir

SpecIplik == IplikInit /\ [][IplikNext]_vars

-----------------------------------------------------------------------------
(* Properties of the weft and warp calculators, checked under SpecIplik    *)

IplikDondu == pc = "dondu"

\* the decimal v of at most k places is within half a unit of 10^-k of the
\* product p, compared in big naturals: |2 v 10^k D - 2 10^k N| <= D for
\* p = N / D
PYakin(v, p, k) ==
  LET poz == (Negatives(p.num) + Negatives(p.den)) % 2 = 0
      N == BigProduct(<<2, Pow10(k)>> \o p.num, 1)
      D == BigProduct(p.den, 1)
      X == BigMul(BigFromInt(2 * Abs(Birim(v, k))), D)
  IN /\ Pow10(k) % v.d = 0
     /\ v.n = 0 \/ (v.n > 0) = poz
     /\ ~BigLess(BigAdd(N, D), X)
     /\ ~BigLess(BigAdd(X, D), N)

\* density x length x width / (Nm x 1000) x (1 + waste), as a product
IplikKutle(g) ==
  [num |-> <<g.yogunluk, g.metraj.n, g.genislik_m.n, g.nm.d,
             g.fire_orani.d + g.fire_orani.n>>,
   den |-> <<g.metraj.d, g.genislik_m.d, g.nm.n, 1000, g.fire_orani.d>>]

\* C23: both calculators raise whenever the yarn count is <= 0, or the width
\* is <= 0, or the length is <= 0; otherwise they return density x length x
\* width / (Nm x 1000) x (1 + waste) rounded to 2 decimals.
C23_IplikHataDeger ==
  IplikDondu =>
    IF QLe(girdi.nm, Zero) \/ QLe(girdi.genislik_m, Zero) \/ QLe(girdi.metraj, Zero)
    THEN ~sonuc.ok
    ELSE sonuc.ok /\ PYakin(sonuc.val, IplikKutle(girdi), 2)

\* the weft of 2 m x 1000 m at 700 picks per m, Nm 13.228, no waste: 105.84 kg
C23_Tanik ==
  /\ IplikDondu
  /\ girdi = [hesap |-> "atki", yogunluk |-> 700, genislik_m |-> FromInt(2),
              metraj |-> FromInt(1000), nm |-> Dec(13228, 3), fire_orani |-> Zero]
  /\ sonuc = Ok(Dec(10584, 2))

\* the call of the calculator g names with the arguments g
IplikCagri(g) ==
  IF g.hesap = "atki"
  THEN atki_iplik_hesapla(g.yogunluk, g.genislik_m, g.metraj, g.nm, g.fire_orani)
  ELSE cozgu_iplik_hesapla(g.yogunluk, g.genislik_m, g.metraj, g.nm, g.fire_orani)

\* g with k times the length, and with k times the width
MetrajKat(g, k) == [g EXCEPT !.metraj = QMul(FromInt(k), g.metraj)]
GenislikKat(g, k) == [g EXCEPT !.genislik_m = QMul(FromInt(k), g.genislik_m)]

\* C24 as stated: multiplying the length, or the width, by k multiplies the
\* returned mass by k, the other arguments fixed.
C24_OrantiliTam ==
  (IplikDondu /\ sonuc.ok) =>
    \A k \in 1..(MaxKat + 1) :
      /\ IplikCagri(MetrajKat(girdi, k)) = Ok(QMul(FromInt(k), sonuc.val))
      /\ IplikCagri(GenislikKat(girdi, k)) = Ok(QMul(FromInt(k), sonuc.val))

\* C24 as amended: multiplying the length, or the width, by k multiplies the
\* returned mass, which is rounded to 2 decimals, by k to within
\* 0.005 x (k + 1) kg.
C24_Orantili ==
  (IplikDondu /\ sonuc.ok) =>
    \A k \in 1..(MaxKat + 1) :
      LET m == IplikCagri(MetrajKat(girdi, k))
          w == IplikCagri(GenislikKat(girdi, k))
      IN /\ m.ok /\ w.ok
         /\ 2 * Abs(Birim(m.val, 2) - k * Birim(sonuc.val, 2)) <= k + 1
         /\ 2 * Abs(Birim(w.val, 2) - k * Birim(sonuc.val, 2)) <= k + 1

\* the weft of 2 m x 1000 m is 105.84 kg; 2000 m give 211.67 kg, and so do 4 m
C24_Tanik ==
  /\ IplikDondu
  /\ girdi = [hesap |-> "atki", yogunluk |-> 700, genislik_m |-> FromInt(2),
              metraj |-> FromInt(1000), nm |-> Dec(13228, 3), fire_orani |-> Zero]
  /\ sonuc = Ok(Dec(10584, 2))
  /\ IplikCagri(MetrajKat(girdi, 2)) = Ok(Dec(21167, 2))
  /\ IplikCagri(GenislikKat(girdi, 2)) = Ok(Dec(21167, 2))

-----------------------------------------------------------------------------
(* Direct calls of the unit conversions                                    *)

\* the yarn values tried are 500, ..., 500 x MaxDegerKat besides the fixed ones
MaxDegerKat == 4

BirimDegerleri ==
  {FromInt(-100), Zero, Dec(1, 3), FromInt(6), Dec(125, 1), Dec(16535, 3),
   FromInt(1667)} \cup {FromInt(500 * k) : k \in 1..MaxDegerKat}

\* islev names the function called; birimi is the unit tag of resolve_dtex_nm
\* and "" for the functions without one
BirimGirdileri ==
  [islev : {"dtex_to_nm", "nm_to_dtex", "ne_to_nm", "nm_to_ne"},
   birimi : {""}, deger : BirimDegerleri]
  \cup [islev : {"resolve_dtex_nm"},
        birimi : {"dtex", "Nm", "tex", "nm", ""}, deger : BirimDegerleri]

BirimInit ==
  /\ pc = "cagri"
  /\ girdi \in BirimGirdileri
  /\ sonuc = Err("")
  /\ i = 0
  /\ sonuclar = <<>>
  /\ baz = Zero
  /\ baz_toplam = Zero

DtexToNmCalistir ==
  /\ pc = "cagri"
  /\ girdi.islev = "dtex_to_nm"
  /\ sonuc' = dtex_to_nm(girdi.deger)
  /\ pc' = "dondu"
  /\ UNCHANGED <<girdi, i, sonuclar, baz, baz_toplam>>

NmToDtexCalistir ==
  /\ pc = "cagri"
  /\ girdi.islev = "nm_to_dtex"
  /\ sonuc' = nm_to_dtex(girdi.deger)
  /\ pc' = "dondu"
  /\ UNCHANGED <<girdi, i, sonuclar, baz, baz_toplam>>

NeToNmCalistir ==
  /\ pc = "cagri"
  /\ girdi.islev = "ne_to_nm"
  /\ sonuc' = ne_to_nm(girdi.deger)
  /\ pc' = "dondu"
  /\ UNCHANGED <<girdi, i, sonuclar, baz, baz_toplam>>

NmToNeCalistir ==
  /\ pc = "cagri"
  /\ girdi.islev = "nm_to_ne"
  /\ sonuc' = nm_to_ne(girdi.deger)
  /\ pc' = "dondu"
  /\ UNCHANGED <<girdi, i, sonuclar, baz, baz_toplam>>

ResolveCalistir ==
  /\ pc = "cagri"
  /\ girdi.islev = "resolve_dtex_nm"
  /\ sonuc' = resolve_dtex_nm(girdi.birimi, girdi.deger)
  /\ pc' = "dondu"
  /\ UNCHANGED <<girdi, i, sonuclar, baz, baz_toplam>>

BirimNext ==
  \/ DtexToNmCalistir
  \/ NmToDtexCalistir
  \/ NeToNmCalistir
  \/ NmToNeCalistir
  \/ ResolveCalistir

SpecBirim == BirimInit /\ [][BirimNext]_vars

-----------------------------------------------------------------------------
(* Properties of the unit conversions, checked under SpecBirim             *)

BirimDondu == pc = "dondu"

\* C25: dtex_to_nm, nm_to_dtex, ne_to_nm and nm_to_ne raise when their
\* argument is <= 0 and return a positive value otherwise; resolve_dtex_nm
\* raises for every unit tag other than "dtex" and "Nm", and for these two
\* raises exactly when the value is <= 0.
C25_DonusumHata ==
  BirimDondu =>
    IF girdi.islev = "resolve_dtex_nm"
    THEN IF girdi.birimi \in {"dtex", "Nm"}
         THEN /\ QLe(girdi.deger, Zero) <=> ~sonuc.ok
              /\ sonuc.ok => QLt(Zero, sonuc.val[1]) /\ QLt(Zero, sonuc.val[2])
         ELSE sonuc = Err("Bilinmeyen iplik birimi")
    ELSE /\ QLe(girdi.deger, Zero) <=> ~sonuc.ok
         /\ sonuc.ok => QLt(Zero, sonuc.val)

\* nm_to_ne(0) raises
C25_Tanik ==
  /\ BirimDondu
  /\ girdi = [islev |-> "nm_to_ne", birimi |-> "", deger |-> Zero]
  /\ sonuc = Err("Nm pozitif olmali")

\* resolve_dtex_nm("tex", 500) raises although the value is positive
C25_TanikBirim ==
  /\ BirimDondu
  /\ girdi = [islev |-> "resolve_dtex_nm", birimi |-> "tex", deger |-> FromInt(500)]
  /\ ~sonuc.ok

-----------------------------------------------------------------------------
(* The round trips of the unit conversions, and hesapla's pile consumption *)
(* for the same yarn given in dtex and in Nm, in double arithmetic: the    *)
(* value handed to the inverse conversion is the double the first one      *)
(* returned.                                                               *)

\* the float of a decimal literal q >= 0
DSayi(q) == IF q.n = 0 THEN [m |-> <<>>, e |-> 0] ELSE ToDouble(q)

\* the exact value of the double x, times 2^k, as a big natural (for x.e <= k)
DOlcek(x, k) == BigMulPow2(x.m, k - x.e)

dtex_to_nm_d(dtex) ==
  IF dtex.m = <<>> THEN Err("dtex pozitif olmali")
  ELSE Ok(DDiv(DSayi(DTEX_NM_BASE), dtex))

\* the base taken as 1000
nm_to_dtex_d_bin(nm) ==
  IF nm.m = <<>> THEN Err("Nm pozitif olmali")
  ELSE Ok(DDiv(DInt(1000), nm))

nm_to_dtex_d(nm) ==
  IF nm.m = <<>> THEN Err("Nm pozitif olmali")
  ELSE Ok(DDiv(DSayi(DTEX_NM_BASE), nm))

ne_to_nm_d(ne) ==
  IF ne.m = <<>> THEN Err("Ne pozitif olmali")
  ELSE Ok(DMul(ne, DSayi(NE_TO_NM_FACTOR)))

nm_to_ne_d(nm) ==
  IF nm.m = <<>> THEN Err("Nm pozitif olmali")
  ELSE Ok(DDiv(nm, DSayi(NE_TO_NM_FACTOR)))

\* resolve_dtex_nm: the pair (dtex, nm) as a record
dtex_nm_cifti(dtex, nm) ==
  IF ~dtex.ok THEN dtex
  ELSE IF ~nm.ok THEN nm
  ELSE Ok([dtex |-> dtex.val, nm |-> nm.val])

resolve_dtex_nm_d(birimi, deger) ==
  IF birimi = "dtex" THEN dtex_nm_cifti(Ok(deger), dtex_to_nm_d(deger))
  ELSE IF birimi = "Nm" THEN dtex_nm_cifti(nm_to_dtex_d(deger), Ok(deger))
  ELSE Err("Bilinmeyen iplik birimi")

\* hav_iplik_tuketimi_hesapla for a double dtex > 0 and valid other inputs:
\* the products and the quotient are taken left to right, in doubles
hav_iplik_tuketimi_d(dtex, reed, pick, hav_mm, baglanti_mm, fire_orani, high_bulk_faktoru) ==
  DRound(
    DDiv(DMul(DMul(DMul(DMul(DMul(dtex, DInt(reed)), DInt(pick)),
                        DDiv(DAdd(DMul(DInt(2), DSayi(hav_mm)),
                                  DSayi(baglanti_mm)),
                             DInt(1000))),
                   DAdd(DInt(1), DSayi(fire_orani))),
              DSayi(high_bulk_faktoru)),
         DSayi(HAV_FORMULA_DIVISOR)),
    4)

\* hesapla's hav_tuketim_kg_m2 for the yarn count given as the double deger
\* in the unit birimi
hav_d_cagir(g, r) ==
  IF ~r.ok THEN r
  ELSE Ok(hav_iplik_tuketimi_d(r.val.dtex, g.tarak_no, g.atki_sikligi,
                               g.hav_yuksekligi, g.baglanti_payi,
                               g.fire_orani, g.high_bulk_faktoru))

hesapla_hav_d(g, birimi, deger) ==
  hav_d_cagir(g, resolve_dtex_nm_d(birimi, deger))

\* f(r.val) for a returned r, r itself when r is an error
ardindan(r, f(_)) == IF r.ok THEN f(r.val) ELSE r

\* the record of the two hesapla calls
hesapla_cifti(s_dtex, s_nm) ==
  IF ~s_dtex.ok THEN s_dtex
  ELSE IF ~s_nm.ok THEN s_nm
  ELSE Ok([dtex |-> s_dtex.val, nm |-> s_nm.val])

hesapla_cift_nm(g, d, nm) == hesapla_cifti(hesapla_hav_d(g, "dtex", d), hesapla_hav_d(g, "Nm", nm))

hesapla_cift(g, d) == ardindan(dtex_to_nm_d(d), LAMBDA nm : hesapla_cift_nm(g, d, nm))

MaxDtexKat == 4

\* the yarn counts of the tests (1667 and 2000 dtex, Ne 8 and 12.5), counts
\* around them and the multiples of 1000 dtex
DonusDegerleri ==
  {Zero, FromInt(7), FromInt(8), Dec(125, 1), FromInt(120), FromInt(1667),
   FromInt(3400)}
    \cup {FromInt(1000 * k) : k \in 1..MaxDtexKat}

DonusGirdileri ==
  [islev : {"dtex", "Ne"}, deger : DonusDegerleri,
   tarak_no : {600}, atki_sikligi : {700}, hav_yuksekligi : {FromInt(8)},
   baglanti_payi : {Dec(15, 1)}, fire_orani : {Dec(1, 1)},
   high_bulk_faktoru : {Dec(112, 2)}]
    \cup
  [islev : {"hesapla"}, deger : DonusDegerleri,
   tarak_no : {600}, atki_sikligi : {700}, hav_yuksekligi : {FromInt(8)},
   baglanti_payi : {Zero, Dec(15, 1)}, fire_orani : {Zero, Dec(5, 2), Dec(1, 1)},
   high_bulk_faktoru : {One, Dec(112, 2)}]

DonusInit ==
  /\ pc = "cagri"
  /\ girdi \in DonusGirdileri
  /\ sonuc = Err("")
  /\ i = 0
  /\ sonuclar = <<>>
  /\ baz = Zero
  /\ baz_toplam = Zero

\* nm_to_dtex(dtex_to_nm(deger))
DtexDonusCalistir ==
  /\ pc = "cagri"
  /\ girdi.islev = "dtex"
  /\ sonuc' = ardindan(dtex_to_nm_d(DSayi(girdi.deger)), nm_to_dtex_d)
  /\ pc' = "dondu"
  /\ UNCHANGED <<girdi, i, sonuclar, baz, baz_toplam>>

\* nm_to_ne(ne_to_nm(deger))
NeDonusCalistir ==
  /\ pc = "cagri"
  /\ girdi.islev = "Ne"
  /\ sonuc' = ardindan(ne_to_nm_d(DSayi(girdi.deger)), nm_to_ne_d)
  /\ pc' = "dondu"
  /\ UNCHANGED <<girdi, i, sonuclar, baz, baz_toplam>>

\* hesapla with iplik_birimi "dtex" and iplik_degeri deger, and hesapla with
\* iplik_birimi "Nm" and iplik_degeri dtex_to_nm(deger)
HesaplaCiftCalistir ==
  /\ pc = "cagri"
  /\ girdi.islev = "hesapla"
  /\ sonuc' = hesapla_cift(girdi, DSayi(girdi.deger))
  /\ pc' = "dondu"
  /\ UNCHANGED <<girdi, i, sonuclar, baz, baz_toplam>>

DonusNext == DtexDonusCalistir \/ NeDonusCalistir \/ HesaplaCiftCalistir

SpecDonus == DonusInit /\ [][DonusNext]_vars

DonusDondu == pc = "dondu"

\* the double x is within one part in 2^52 of the decimal q > 0
DYakin(x, q) ==
  LET k == IF x.e > 60 THEN x.e ELSE 60
      a == BigMul(DOlcek(x, k), BigFromInt(q.d))
      b == BigMulPow2(BigFromInt(q.n), k)
      fark == IF BigLess(a, b) THEN BigSub(b, a) ELSE BigSub(a, b)
  IN ~BigLess(b, BigMulPow2(fark, 52))

\* the round trip of a positive count returns the count to within one part
\* in 2^52
DonusYakin ==
  DonusDondu /\ girdi.islev \in {"dtex", "Ne"} /\ QLt(Zero, girdi.deger)
    => sonuc.ok /\ DYakin(sonuc.val, girdi.deger)

\* C26 as stated: the round trips return the count within tolerance and the
\* two calls of hesapla report the same pile consumption
C26_GidisDonusTam ==
  /\ DonusYakin
  /\ DonusDondu /\ girdi.islev = "hesapla" /\ QLt(Zero, girdi.deger)
       => sonuc.ok /\ sonuc.val.nm = sonuc.val.dtex

\* C26: the round trips nm_to_dtex(dtex_to_nm(d)) and nm_to_ne(ne_to_nm(Ne))
\* return d and Ne to within one part in 2^52, and hesapla called with unit
\* 'Nm' and value dtex_to_nm(d) reports a pile consumption within 0.0001 of
\* the one hesapla reports for unit 'dtex' and value d
C26_GidisDonus ==
  /\ DonusYakin
  /\ DonusDondu /\ girdi.islev = "hesapla" /\ QLt(Zero, girdi.deger)
       => /\ sonuc.ok
          /\ Abs(Birim(sonuc.val.nm, 4) - Birim(sonuc.val.dtex, 4)) <= 1

\* 3400 dtex with 5 % waste: 2.624 kg/m2 by the dtex route, 2.6239 by the Nm
\* route, whose round trip returns 3399.9999999999995
C26_Tanik ==
  /\ DonusDondu
  /\ girdi.islev = "hesapla"
  /\ girdi.deger = FromInt(3400)
  /\ girdi.fire_orani = Dec(5, 2)
  /\ girdi.high_bulk_faktoru = One
  /\ girdi.baglanti_payi = Dec(15, 1)
  /\ sonuc = Ok([dtex |-> Dec(2624, 3), nm |-> Dec(26239, 4)])

-----------------------------------------------------------------------------
(* The loop of the sweep                                                   *)

\* the number of leading indices 0, 1, .. adim_sayisi whose candidate height
\* is > 0
OndekiPozitifler(g) ==
  CHOOSE n \in 0..(g.adim_sayisi + 1) :
    /\ \A k \in 0..(n - 1) : QLt(Zero, SimYukseklik(g, k))
    /\ n = g.adim_sayisi + 1 \/ QLe(SimYukseklik(g, n), Zero)

\* row k + 1 of the list is the row of index k, for every row
SiraliSatirlar(g, satirlar) ==
  \A k \in 1..Len(satirlar) :
    /\ satirlar[k].hav_mm = SimYukseklik(g, k - 1)
    /\ QLt(Zero, satirlar[k].hav_mm)

DonguDurumu ==
  /\ pc = "dongu" /\ girdi.adim_sayisi >= 0
       => /\ i <= girdi.adim_sayisi + 1
          /\ Len(sonuclar) = i
          /\ SiraliSatirlar(girdi, sonuclar)
  /\ SimDondu /\ girdi.adim_sayisi >= 0
       => /\ Len(sonuc.val) = OndekiPozitifler(girdi)
          /\ Len(sonuc.val) <= girdi.adim_sayisi + 1
          /\ SiraliSatirlar(girdi, sonuc.val)
          /\ (\A k \in 0..girdi.adim_sayisi : QLt(Zero, SimYukseklik(girdi, k)))
               => Len(sonuc.val) = girdi.adim_sayisi + 1

-----------------------------------------------------------------------------
(* Validation by the calculators called directly                           *)

\* C28: a direct call of atki_iplik_hesapla or cozgu_iplik_hesapla with a
\* density <= 0 or a waste share < 0 raises, and no call that returns
\* returns a negative mass
C28_AltHesapDogrular ==
  IplikDondu =>
    /\ (girdi.yogunluk <= 0 \/ QLt(girdi.fire_orani, Zero)) => ~sonuc.ok
    /\ sonuc.ok => QLe(Zero, sonuc.val)

-----------------------------------------------------------------------------
(* The dashboard, app.py: its own conversions and calculators, and         *)
(* hesaplamalari_calistir, which the page calls for the record built from  *)
(* the side bar.  app.py does not import engine.py.                        *)

\* return 10000.0 / dtex if dtex > 0 else 0.0
app_dtex_to_nm(dtex) ==
  IF QLt(Zero, dtex) THEN QDiv(FromInt(10000), dtex) ELSE Zero

\* return 10000.0 / nm if nm > 0 else 0.0
app_nm_to_dtex(nm) ==
  IF QLt(Zero, nm) THEN QDiv(FromInt(10000), nm) ELSE Zero

\* return ne * 1.693
app_ne_to_nm(ne) == QMul(ne, Dec(1693, 3))

\* reed and pick are taken per 10 cm (x 10), the loop length in mm, the
\* divisor is 10^10; nothing is validated
app_hav_iplik_tuketimi_hesapla(dtex, reed, pick, hav_mm, baglanti_mm, fire_orani, high_bulk_faktoru) ==
  LET reed_m == reed * 10
      pick_m == pick * 10
      ilme_boyu_mm == QAdd(QMul(FromInt(2), hav_mm), baglanti_mm)
  IN RoundP(PDiv(PMul(PMul(PMul(PMul(PMul(P(dtex), PInt(reed_m)), PInt(pick_m)),
                                P(ilme_boyu_mm)),
                           P(QAdd(One, fire_orani))),
                      P(high_bulk_faktoru)),
                 PMul(PInt(100000), PInt(100000))), 4)

\* kg = pick_m * metraj * genislik_m / (atki_nm * 1000) * (1 + fire_orani);
\* a yarn count of 0 divides by zero
app_atki_iplik_hesapla(pick, genislik_m, metraj, atki_nm, fire_orani) ==
  IF atki_nm.n = 0 THEN Err("ZeroDivisionError")
  ELSE LET toplam_atki_m == PMul(PMul(PInt(pick * 10), P(metraj)), P(genislik_m))
       IN Ok(RoundP(PMul(PDiv(toplam_atki_m, PMul(P(atki_nm), PInt(1000))),
                         P(QAdd(One, fire_orani))), 2))

app_cozgu_iplik_hesapla(reed, genislik_m, metraj, cozgu_nm, fire_orani) ==
  IF cozgu_nm.n = 0 THEN Err("ZeroDivisionError")
  ELSE LET toplam_cozgu_m == PMul(PMul(PInt(reed * 10), P(genislik_m)), P(metraj))
       IN Ok(RoundP(PMul(PDiv(toplam_cozgu_m, PMul(P(cozgu_nm), PInt(1000))),
                         P(QAdd(One, fire_orani))), 2))

\* the tuple (dakika, saat, gun); (0.0, 0.0, 0.0) for rpm <= 0 or
\* verimlilik_yuzde <= 0
app_uretim_suresi_hesapla(metraj, atki_sikligi, rpm, verimlilik_yuzde) ==
  IF rpm <= 0 \/ QLe(verimlilik_yuzde, Zero)
  THEN [dakika |-> Zero, saat |-> Zero, gun |-> Zero]
  ELSE LET toplam_vurus == PMul(P(metraj), PInt(atki_sikligi * 10))
           efektif_rpm == QMul(FromInt(rpm), QDiv(verimlilik_yuzde, FromInt(100)))
           dakika == PDiv(toplam_vurus, P(efektif_rpm))
           saat == PDiv(dakika, PInt(60))
           gun == PDiv(saat, PInt(24))
       IN [dakika |-> RoundP(dakika, 1), saat |-> RoundP(saat, 2),
           gun |-> RoundP(gun, 2)]

\* the creel plan of the dashboard; uyari is kept as "there is a warning"
calik_plani_hesapla(reed, genislik_m, renk_sayisi, creel_kapasitesi) ==
  LET toplam_dis == IntFloatCarpim(reed * 10, genislik_m)
      renk == IF renk_sayisi <= 0 THEN 1 ELSE renk_sayisi
      renk_basi_bobin == Ceil(Q(toplam_dis, renk))
      toplam_bobin == renk_basi_bobin * renk * 2
  IN [toplam_dis |-> toplam_dis,
      renk_basi_dis |-> RoundDouble(toplam_dis, renk, 1),
      renk_basi_bobin |-> renk_basi_bobin,
      toplam_bobin |-> toplam_bobin,
      uyari |-> toplam_bobin > creel_kapasitesi]

\* the prices are used as given; maliyet_m2 is 0 for an area <= 0
app_maliyet_hesapla(hav_kg, atki_kg, cozgu_kg, hav_fiyat, atki_fiyat, cozgu_fiyat, alan_m2) ==
  LET hav_maliyet == QMul(hav_kg, hav_fiyat)
      atki_maliyet == QMul(atki_kg, atki_fiyat)
      cozgu_maliyet == QMul(cozgu_kg, cozgu_fiyat)
      toplam == QAdd(QAdd(hav_maliyet, atki_maliyet), cozgu_maliyet)
  IN [hav_maliyet |-> Round(hav_maliyet, 2),
      atki_maliyet |-> Round(atki_maliyet, 2),
      cozgu_maliyet |-> Round(cozgu_maliyet, 2),
      toplam |-> Round(toplam, 2),
      maliyet_m2 |-> IF QLt(Zero, alan_m2)
                     THEN RoundP(PDiv(P(toplam), P(alan_m2)), 2) ELSE Zero]

hesaplamalari_calistir(g) ==
  LET dtex == IF g.iplik_birimi = "Nm" THEN app_nm_to_dtex(g.iplik_degeri)
              ELSE g.iplik_degeri
      nm == IF g.iplik_birimi = "Nm" THEN g.iplik_degeri ELSE app_dtex_to_nm(dtex)
      atki_nm == app_ne_to_nm(g.atki_iplik_ne)
      alan_m2 == QMul(g.hali_genisligi, g.toplam_metraj)
      hav_kg_m2 == app_hav_iplik_tuketimi_hesapla(
                     dtex, g.tarak_no, g.atki_sikligi, g.hav_yuksekligi,
                     g.baglanti_payi, g.fire_orani, g.high_bulk_faktoru)
      toplam_hav_kg == RoundP(PMul(P(hav_kg_m2), P(alan_m2)), 2)
      r4 == app_atki_iplik_hesapla(g.atki_sikligi, g.hali_genisligi,
                                   g.toplam_metraj, atki_nm,
                                   QMul(g.fire_orani, Dec(5, 1)))
      r5 == app_cozgu_iplik_hesapla(g.tarak_no, g.hali_genisligi,
                                    g.toplam_metraj, g.cozgu_iplik_nm,
                                    QMul(g.fire_orani, Dec(5, 1)))
      sure == app_uretim_suresi_hesapla(g.toplam_metraj, g.atki_sikligi,
                                        g.makine_hizi, g.verimlilik)
      creel == calik_plani_hesapla(g.tarak_no, g.hali_genisligi, g.renk_sayisi,
                                   g.creel_kapasitesi)
      maliyet == app_maliyet_hesapla(toplam_hav_kg, r4.val, r5.val,
                                     g.iplik_birim_fiyat, g.atki_birim_fiyat,
                                     g.cozgu_birim_fiyat, alan_m2)
  IN IF ~r4.ok THEN r4
     ELSE IF ~r5.ok THEN r5
     ELSE Ok([hav_tuketim_kg_m2 |-> hav_kg_m2,
              toplam_hav_kg |-> toplam_hav_kg,
              toplam_atki_kg |-> r4.val,
              toplam_cozgu_kg |-> r5.val,
              toplam_iplik_kg |-> Round(QAdd(QAdd(toplam_hav_kg, r4.val), r5.val), 2),
              toplam_dakika |-> sure.dakika,
              toplam_saat |-> sure.saat,
              toplam_gun |-> sure.gun,
              toplam_dis_sayisi |-> creel.toplam_dis,
              renk_basi_bobin |-> creel.renk_basi_bobin,
              toplam_bobin |-> creel.toplam_bobin,
              toplam_maliyet |-> maliyet.toplam,
              maliyet_m2 |-> maliyet.maliyet_m2,
              dtex_degeri |-> dtex,
              nm_degeri |-> nm])

\* records of the side bar: the defaults of the tests for a short run, with
\* values out of the engine's domain among the others
PanoGirdileri ==
  {[TipikGirdiler EXCEPT !.toplam_metraj = m, !.tarak_no = t,
                         !.iplik_birimi = b[1], !.iplik_degeri = b[2],
                         !.atki_iplik_ne = ne, !.verimlilik = v,
                         !.renk_sayisi = r, !.iplik_birim_fiyat = f] :
     m \in {FromInt(10), FromInt(100)}, t \in {60, 600},
     b \in {<<"dtex", FromInt(1667)>>, <<"dtex", FromInt(2000)>>,
            <<"Nm", FromInt(5)>>, <<"Nm", FromInt(6)>>},
     ne \in {Zero, FromInt(8)}, v \in {Zero, FromInt(80)},
     r \in {0, 8}, f \in {FromInt(-85), FromInt(85)}}

PanoInit ==
  /\ pc = "cagri"
  /\ girdi \in PanoGirdileri
  /\ sonuc = Err("")
  /\ i = 0
  /\ sonuclar = <<>>
  /\ baz = Zero
  /\ baz_toplam = Zero

\* the record goes to the dashboard's hesaplamalari_calistir and, for the
\* comparison, to the engine's hesapla
PanoCalistir ==
  /\ pc = "cagri"
  /\ sonuc' = [pano |-> hesaplamalari_calistir(girdi), motor |-> hesapla(girdi)]
  /\ pc' = "dondu"
  /\ UNCHANGED <<girdi, i, sonuclar, baz, baz_toplam>>

PanoNext == PanoCalistir

SpecPano == PanoInit /\ [][PanoNext]_vars

PanoDondu == pc = "dondu"

\* the figures of the dashboard's record are those of the engine's
AyniRakamlar(p, m) ==
  /\ p.hav_tuketim_kg_m2 = m.hav_tuketim_kg_m2
  /\ p.toplam_hav_kg = m.toplam_hav_kg
  /\ p.toplam_atki_kg = m.toplam_atki_kg
  /\ p.toplam_cozgu_kg = m.toplam_cozgu_kg
  /\ p.toplam_dakika = m.sure.dakika
  /\ p.toplam_saat = m.sure.saat
  /\ p.toplam_gun = m.sure.gun_24h
  /\ p.toplam_dis_sayisi = m.creel.toplam_dis
  /\ p.renk_basi_bobin = m.creel.renk_basi_bobin
  /\ p.toplam_bobin = m.creel.toplam_bobin
  /\ p.toplam_maliyet = m.maliyet.toplam
  /\ p.maliyet_m2 = m.maliyet.maliyet_m2

\* C29: for every record the dashboard has figures exactly when the engine's
\* hesapla returns, and then its pile consumption, weft and warp mass,
\* production time, creel plan and cost are those hesapla returns
C29_PanoMotorAyni ==
  PanoDondu =>
    /\ sonuc.pano.ok = sonuc.motor.ok
    /\ sonuc.motor.ok => AyniRakamlar(sonuc.pano.val, sonuc.motor.val)

-----------------------------------------------------------------------------
(* The two capacity indicators of the creel plan                           *)

CreelPlanDondu == pc = "dondu" /\ sonuc.ok

\* C30 as stated: kapasite_asimi is true exactly when the reported
\* kullanim_orani is > 1, and kullanim_orani is > 0 whenever toplam_bobin > 0
C30_GostergelerTam ==
  CreelPlanDondu =>
    /\ sonuc.val.kapasite_asimi <=> QLt(One, sonuc.val.kullanim_orani)
    /\ sonuc.val.toplam_bobin > 0 => QLt(Zero, sonuc.val.kullanim_orani)

\* C30: kapasite_asimi is true exactly when toplam_bobin / creel_kapasitesi is
\* > 1; the reported kullanim_orani, rounded to 4 decimals, is then >= 1 and
\* otherwise <= 1, and it is > 1 resp. < 1 when the two counts differ by more
\* than 0.00005 of the capacity; kullanim_orani is >= 0 whenever
\* toplam_bobin > 0, and > 0 when toplam_bobin is more than 0.00005 of the
\* capacity
C30_Gostergeler ==
  CreelPlanDondu =>
    LET b == sonuc.val.toplam_bobin
        c == girdi.creel_kapasitesi
        oran == sonuc.val.kullanim_orani
    IN /\ sonuc.val.kapasite_asimi <=> b > c
       /\ sonuc.val.kapasite_asimi => QLe(One, oran)
       /\ ~sonuc.val.kapasite_asimi => QLe(oran, One)
       /\ b - c > c \div 20000 => QLt(One, oran)
       /\ c - b > c \div 20000 => QLt(oran, One)
       /\ b > 0 => QLe(Zero, oran)
       /\ b > c \div 20000 => QLt(Zero, oran)

\* 48000 bobbins on a creel of 47999: exceeded, with a reported ratio of 1.0
C30_Tanik ==
  /\ CreelPlanDondu
  /\ girdi.creel_kapasitesi = 47999
  /\ sonuc.val.toplam_bobin = 48000
  /\ sonuc.val.kapasite_asimi
  /\ sonuc.val.kullanim_orani = One

====
